---------------------------- MODULE Spec2Model ----------------------------
(***************************************************************************)
(* Model of the comparison engine of data-integrity_app                    *)
(* (src/src/comparison.py): compare_sheets, the table comparator, and      *)
(* compare_files, the workbook comparator that dispatches one              *)
(* compare_sheets task per common sheet to a thread pool.                  *)
(*                                                                         *)
(* A DataFrame is a record [columns, rows]: columns is the ordered list of *)
(* (distinct) column labels, rows the ordered list of rows, each row a     *)
(* function from the column labels to cells.  The frames have the default  *)
(* RangeIndex and object columns, so a cell is a Python object: an int, a  *)
(* str, or one of the missing markers float('nan') and pandas.NA.          *)
(* A cell is a record [kind, text]: text is what str() returns for it.     *)
(***************************************************************************)
EXTENDS Integers, Sequences, FiniteSets, TLC

----------------------------------------------------------------------------
(* Cells and the conversions applied to them                               *)

IntCell(n) == [kind |-> "int", text |-> ToString(n)]
StrCell(s) == [kind |-> "str", text |-> s]
NaNCell    == [kind |-> "nan", text |-> "nan"]
NACell     == [kind |-> "NA",  text |-> "<NA>"]

\* str(x)
PyStr(cell) == cell.text

\* pd.notna(x)
NotNa(cell) == cell.kind \notin {"nan", "NA"}

\* Variant of KeyedNormalize: str(x) without the test for missing values.
KeyedNormalizeRaw(cell) == PyStr(cell)

\* str(x) if pd.notna(x) else "NaN"     (keyed path)
KeyedNormalize(cell) == IF NotNa(cell) THEN PyStr(cell) ELSE "NaN"

\* Series.astype(str), element-wise      (positional path)
AsTypeStr(cell) == PyStr(cell)

\* element equality used by DataFrame.equals: equal objects, or missing
\* markers of the same kind in the same location
CellEquals(c1, c2) == c1 = c2

\* df1.equals(df2): same labels in the same order, same length, same cells
DfEquals(df1, df2) ==
    /\ df1.columns = df2.columns
    /\ Len(df1.rows) = Len(df2.rows)
    /\ \A i \in 1..Len(df1.rows) :
         \A c \in DOMAIN df1.rows[i] : CellEquals(df1.rows[i][c], df2.rows[i][c])

----------------------------------------------------------------------------
(* Sequences and the iteration order of Python sets                        *)

Range(s) == {s[i] : i \in DOMAIN s}

\* list.index(x): 0-based position of the first occurrence
IndexOf(s, x) == (CHOOSE i \in DOMAIN s : s[i] = x /\ \A j \in 1..(i - 1) : s[j] # x) - 1

\* s[lo:hi] with 0-based, end-exclusive Python slice bounds
Slice(s, lo, hi) ==
    LET h == IF hi > Len(s) THEN Len(s) ELSE hi
    IN  IF lo >= h THEN <<>> ELSE [i \in 1..(h - lo) |-> s[lo + i]]

RECURSIVE SetToSeq(_)
SetToSeq(S) ==
    IF S = {} THEN <<>>
    ELSE LET x == CHOOSE y \in S : TRUE IN <<x>> \o SetToSeq(S \ {x})

\* Number of hash seeds considered
NumSeeds == 2

\* Iterating a set of str (or of tuples of str) visits its elements in an
\* order fixed by the interpreter's hash seed: the same set is visited in
\* the same order throughout one execution, and in another order in another
\* execution.  seed selects the order, here among the rotations of one
\* enumeration of the set.
SetOrder(S, seed) ==
    LET base == SetToSeq(S)
        n    == Len(base)
    IN  [i \in 1..n |-> base[((i - 1 + seed) % n) + 1]]


RECURSIVE FlattenSeq(_)
FlattenSeq(ss) == IF ss = <<>> THEN <<>> ELSE Head(ss) \o FlattenSeq(Tail(ss))

Min(x, y) == IF x <= y THEN x ELSE y
Abs(x) == IF x < 0 THEN -x ELSE x

----------------------------------------------------------------------------
(* compare_sheets(df1, df2, key_columns, chunk_size)                       *)

\* One report line: the fixed text of the f-string, the names and the
\* numbers substituted into it.
Line(tag, names, nums) == [tag |-> tag, names |-> names, nums |-> nums]

NoKey == <<>>

\* error_details as initialised
InitErrorDetails ==
    [column_differences |->
        [missing_columns |-> <<>>, extra_columns |-> <<>>, reordered_columns |-> <<>>],
     row_differences |->
        [count_diff |-> 0, missing_rows |-> <<>>, extra_rows |-> <<>>],
     value_differences |-> <<>>]

\* Variant of IdenticalResult: the "identical" message is also put in the
\* reports.
IdenticalResultLogged ==
    [detailed |-> <<Line("DataFrames are identical - no differences found", <<>>, <<>>)>>,
     summary |-> <<Line("DataFrames are identical - no differences found", <<>>, <<>>)>>,
     errors |-> InitErrorDetails]

\* what the quick check returns when df1.equals(df2): the reports and
\* error_details exactly as initialised
IdenticalResult ==
    [detailed |-> <<>>, summary |-> <<>>, errors |-> InitErrorDetails]

ColSet(df) == Range(df.columns)

\* Variant of MissingCols: the columns of df2 are not taken away.
MissingColsAll(df1, df2) == ColSet(df1)

MissingCols(df1, df2) == ColSet(df1) \ ColSet(df2)
ExtraCols(df1, df2)   == ColSet(df2) \ ColSet(df1)
CommonCols(df1, df2)  == ColSet(df1) \cap ColSet(df2)

\* Variant of ReorderedCols: only the columns that stand further right in
\* df2 than in df1.
ReorderedColsRight(df1, df2) ==
    IF df1.columns # df2.columns
    THEN SelectSeq(df1.columns,
                   LAMBDA col : /\ col \in CommonCols(df1, df2)
                                /\ IndexOf(df1.columns, col) < IndexOf(df2.columns, col))
    ELSE <<>>

\* reordered_cols: the common columns, in df1's order, whose position in
\* list(df1.columns) differs from their position in list(df2.columns)
ReorderedCols(df1, df2) ==
    IF df1.columns # df2.columns
    THEN SelectSeq(df1.columns,
                   LAMBDA col : /\ col \in CommonCols(df1, df2)
                                /\ IndexOf(df1.columns, col) # IndexOf(df2.columns, col))
    ELSE <<>>

\* Variant of RowDiff: the difference without its sign.
RowDiffAbs(df1, df2) == Abs(Len(df1.rows) - Len(df2.rows))

\* row_diff
RowDiff(df1, df2) == Len(df1.rows) - Len(df2.rows)

\* all(col in df1.columns ...) and all(col in df2.columns ...)
KeyColumnsPresent(df1, df2, key_columns) ==
    /\ \A i \in DOMAIN key_columns : key_columns[i] \in ColSet(df1)
    /\ \A i \in DOMAIN key_columns : key_columns[i] \in ColSet(df2)

\* Variant of MissingKeyCols: only the first dataframe is consulted.
MissingKeyColsFirstOnly(df1, df2, key_columns) ==
    SelectSeq(key_columns, LAMBDA col : col \notin ColSet(df1))

\* missing_key_cols
MissingKeyCols(df1, df2, key_columns) ==
    SelectSeq(key_columns, LAMBDA col : col \notin ColSet(df1) \/ col \notin ColSet(df2))

\* key_values = tuple(str(row[col]) for col in key_columns)
KeyValues(row, key_columns) == [i \in DOMAIN key_columns |-> PyStr(row[key_columns[i]])]

\* d[k] = v
DictPut(d, k, v) == [x \in DOMAIN d \cup {k} |-> IF x = k THEN v ELSE d[x]]

\* df_dict after the first n rows: df_dict[key_values] = row, row by row
RECURSIVE DfDictUpTo(_, _, _)
DfDictUpTo(df, key_columns, n) ==
    IF n = 0 THEN <<>>
    ELSE DictPut(DfDictUpTo(df, key_columns, n - 1),
                 KeyValues(df.rows[n], key_columns), df.rows[n])

\* Variant of DfDict: a key keeps the first row that has it.
DfDictFirstWins(df, key_columns) ==
    [k \in {KeyValues(df.rows[i], key_columns) : i \in DOMAIN df.rows} |->
        df.rows[CHOOSE i \in DOMAIN df.rows :
                   /\ KeyValues(df.rows[i], key_columns) = k
                   /\ \A j \in 1..(i - 1) : KeyValues(df.rows[j], key_columns) # k]]

\* df_dict
DfDict(df, key_columns) == DfDictUpTo(df, key_columns, Len(df.rows))

\* dict(zip(key_columns, key))
KeyDict(key_columns, key) ==
    [c \in Range(key_columns) |->
        key[CHOOSE i \in DOMAIN key_columns :
              key_columns[i] = c /\ \A j \in DOMAIN key_columns : key_columns[j] = c => j <= i]]

\* Limit of the enumerated missing / extra rows
RowListCap == 100

\* Variant of ListedRows: the list is not cut at the limit.
ListedRowsUncut(keys, key_columns, seed) ==
    LET listed == SetOrder(keys, seed)
    IN  [i \in DOMAIN listed |-> KeyDict(key_columns, listed[i])]

\* [dict(zip(key_columns, key)) for key in list(keys)[:100]]
ListedRows(keys, key_columns, seed) ==
    LET listed == Slice(SetOrder(keys, seed), 0, RowListCap)
    IN  [i \in DOMAIN listed |-> KeyDict(key_columns, listed[i])]

\* the differences of one key: for col in common_cols, in set order
KeyDiffs(key, row1, row2, colOrder, key_columns) ==
    LET differing == SelectSeq(colOrder,
                        LAMBDA col : KeyedNormalize(row1[col]) # KeyedNormalize(row2[col]))
    IN  [i \in DOMAIN differing |->
            [key    |-> KeyDict(key_columns, key),
             column |-> differing[i],
             value1 |-> KeyedNormalize(row1[differing[i]]),
             value2 |-> KeyedNormalize(row2[differing[i]])]]

\* Variant of NumChunks: a last chunk shorter than chunk_size is skipped.
NumChunksFullOnly(n, chunk_size) == n \div chunk_size

\* Number of passes of: for i in range(0, n, chunk_size)
NumChunks(n, chunk_size) == (n + chunk_size - 1) \div chunk_size

\* value_diffs of the keyed path: keys_list is cut into chunks of
\* chunk_size keys, chunk_diffs of every chunk is appended in turn
KeyedValueDiffs(df1_dict, df2_dict, keys_list, colOrder, key_columns, chunk_size) ==
    LET chunk_keys(j) == Slice(keys_list, (j - 1) * chunk_size, j * chunk_size)
        chunk_diffs(j) ==
            FlattenSeq([x \in DOMAIN chunk_keys(j) |->
                KeyDiffs(chunk_keys(j)[x], df1_dict[chunk_keys(j)[x]],
                         df2_dict[chunk_keys(j)[x]], colOrder, key_columns)])
    IN  FlattenSeq([j \in 1..NumChunks(Len(keys_list), chunk_size) |-> chunk_diffs(j)])

\* the differences of one column in one chunk of rows [i, chunk_end):
\* diff_mask = (s1 != s2) over the astype(str) columns, then one record
\* per index in the mask, with str() of the two cells
ColumnChunkDiffs(df1, df2, col, i, chunk_end) ==
    LET idxs == [x \in 1..(chunk_end - i) |-> i + x - 1]
        diff_indices == SelectSeq(idxs,
                           LAMBDA idx : AsTypeStr(df1.rows[idx + 1][col])
                                          # AsTypeStr(df2.rows[idx + 1][col]))
    IN  [x \in DOMAIN diff_indices |->
            [row    |-> diff_indices[x],
             column |-> col,
             value1 |-> PyStr(df1.rows[diff_indices[x] + 1][col]),
             value2 |-> PyStr(df2.rows[diff_indices[x] + 1][col])]]

\* Number of value differences the consumers of the result go through
DisplayCap == 1000

\* Variant of PositionalValueDiffs: the list is cut at DisplayCap records.
PositionalValueDiffsCapped(df1, df2, colOrder, chunk_size) ==
    LET min_rows == Min(Len(df1.rows), Len(df2.rows))
        chunk_diffs(j) ==
            LET i == (j - 1) * chunk_size
                chunk_end == Min(i + chunk_size, min_rows)
            IN  FlattenSeq([x \in DOMAIN colOrder |->
                    ColumnChunkDiffs(df1, df2, colOrder[x], i, chunk_end)])
    IN  Slice(FlattenSeq([j \in 1..NumChunks(min_rows, chunk_size) |-> chunk_diffs(j)]),
              0, DisplayCap)

\* value_diffs of the positional path
PositionalValueDiffs(df1, df2, colOrder, chunk_size) ==
    LET min_rows == Min(Len(df1.rows), Len(df2.rows))
        chunk_diffs(j) ==
            LET i == (j - 1) * chunk_size
                chunk_end == Min(i + chunk_size, min_rows)
            IN  FlattenSeq([x \in DOMAIN colOrder |->
                    ColumnChunkDiffs(df1, df2, colOrder[x], i, chunk_end)])
    IN  FlattenSeq([j \in 1..NumChunks(min_rows, chunk_size) |-> chunk_diffs(j)])


\* highlight_differences_excel / highlight_differences_csv: the value
\* differences of one sheet that are highlighted
HighlightedDiffs(value_diffs) ==
    IF Len(value_diffs) > DisplayCap THEN Slice(value_diffs, 0, DisplayCap) ELSE value_diffs

\* display_comparison_results: the rows of the table of value differences
\* that are displayed
DisplayedDiffs(all_diffs) ==
    IF Len(all_diffs) > DisplayCap THEN Slice(all_diffs, 0, DisplayCap) ELSE all_diffs

\* Variant of AppendIf: the line is appended whether cond holds or not.
AppendAlways(cond, seq, x) == Append(seq, x)

\* seq with x appended when cond holds
AppendIf(cond, seq, x) == IF cond THEN Append(seq, x) ELSE seq

\* The column and row-count part of compare_sheets, performed on every
\* path after the quick check.
ColumnStage(df1, df2, seed) ==
    LET missing_cols == SetOrder(MissingCols(df1, df2), seed)
        extra_cols   == SetOrder(ExtraCols(df1, df2), seed)
        reordered    == ReorderedCols(df1, df2)
        row_diff     == RowDiff(df1, df2)
        d1 == AppendIf(missing_cols # <<>>, <<>>,
                       Line("Missing columns in second file", missing_cols, <<>>))
        d2 == AppendIf(extra_cols # <<>>, d1,
                       Line("Extra columns in second file", extra_cols, <<>>))
        d3 == AppendIf(reordered # <<>>, d2, Line("Reordered columns", reordered, <<>>))
        d4 == AppendIf(row_diff # 0, d3,
                       Line("Row count difference", <<>>,
                            <<row_diff, Len(df1.rows), Len(df2.rows)>>))
        s1 == AppendIf(missing_cols # <<>>, <<>>,
                       Line("Missing columns", <<>>, <<Len(missing_cols)>>))
        s2 == AppendIf(extra_cols # <<>>, s1,
                       Line("Extra columns", <<>>, <<Len(extra_cols)>>))
        s3 == AppendIf(reordered # <<>>, s2,
                       Line("Reordered columns", <<>>, <<Len(reordered)>>))
        s4 == AppendIf(row_diff # 0, s3,
                       Line("Row count difference", <<>>, <<Abs(row_diff)>>))
    IN  [detailed |-> d4, summary |-> s4,
         errors |-> [InitErrorDetails EXCEPT
                        !.column_differences.missing_columns = missing_cols,
                        !.column_differences.extra_columns = extra_cols,
                        !.column_differences.reordered_columns = reordered,
                        !.row_differences.count_diff = row_diff]]

\* if key_columns: and every key column exists in both dataframes
KeyedStage(df1, df2, key_columns, chunk_size, seed, r) ==
    LET df1_dict == DfDict(df1, key_columns)
        df2_dict == DfDict(df2, key_columns)
        common_keys  == DOMAIN df1_dict \cap DOMAIN df2_dict
        missing_keys == DOMAIN df1_dict \ DOMAIN df2_dict
        extra_keys   == DOMAIN df2_dict \ DOMAIN df1_dict
        value_diffs  == KeyedValueDiffs(df1_dict, df2_dict, SetOrder(common_keys, seed),
                                        SetOrder(CommonCols(df1, df2), seed),
                                        key_columns, chunk_size)
        d1 == AppendIf(missing_keys # {}, r.detailed,
                       Line("Missing rows in second file", <<>>, <<Cardinality(missing_keys)>>))
        d2 == AppendIf(extra_keys # {}, d1,
                       Line("Extra rows in second file", <<>>, <<Cardinality(extra_keys)>>))
        d3 == AppendIf(value_diffs # <<>>, d2,
                       Line("Value differences", <<>>, <<Len(value_diffs)>>))
        s1 == AppendIf(missing_keys # {}, r.summary,
                       Line("Missing rows", <<>>, <<Cardinality(missing_keys)>>))
        s2 == AppendIf(extra_keys # {}, s1,
                       Line("Extra rows", <<>>, <<Cardinality(extra_keys)>>))
        s3 == AppendIf(value_diffs # <<>>, s2,
                       Line("Value differences", <<>>, <<Len(value_diffs)>>))
    IN  [detailed |-> d3, summary |-> s3,
         errors |-> [r.errors EXCEPT
                        !.row_differences.missing_rows =
                            ListedRows(missing_keys, key_columns, seed),
                        !.row_differences.extra_rows =
                            ListedRows(extra_keys, key_columns, seed),
                        !.value_differences = value_diffs]]

\* if key_columns: but some key column is absent from a dataframe
KeyColumnsMissingStage(df1, df2, key_columns, r) ==
    [r EXCEPT
        !.detailed = Append(@, Line("Key columns not found in both dataframes",
                                    MissingKeyCols(df1, df2, key_columns), <<>>)),
        !.summary = Append(@, Line("Unable to compare rows: key columns missing",
                                   <<>>, <<>>))]

\* no key columns: compare row by row
PositionalStage(df1, df2, chunk_size, seed, r) ==
    LET value_diffs == PositionalValueDiffs(df1, df2,
                           SetOrder(CommonCols(df1, df2), seed), chunk_size)
    IN  [detailed |-> AppendIf(value_diffs # <<>>, r.detailed,
                               Line("Value differences", <<>>, <<Len(value_diffs)>>)),
         summary |-> AppendIf(value_diffs # <<>>, r.summary,
                              Line("Value differences", <<>>, <<Len(value_diffs)>>)),
         errors |-> [r.errors EXCEPT !.value_differences = value_diffs]]

\* Column labels that are int objects: read_excel takes the labels from the
\* header row, and a numeric header cell gives an int label.  Such a label
\* is written here by its decimal digits; every other label is a str.
IntLabels == {"2024"}

\* ', '.join(names) raises TypeError when an item of names is not a str
JoinRaises(names) == \E col \in names : col \in IntLabels

\* compare_sheets raises instead of returning: one of the joins of the
\* missing, extra and reordered columns, made when the list is not empty,
\* meets a label that is not a str
CompareSheetsRaises(df1, df2) ==
    /\ ~DfEquals(df1, df2)
    /\ \/ JoinRaises(MissingCols(df1, df2))
       \/ JoinRaises(ExtraCols(df1, df2))
       \/ JoinRaises(Range(ReorderedCols(df1, df2)))

\* compare_sheets: (detailed_report, summary_report, error_details).
\* key_columns = NoKey stands for key_columns=None (and for the empty list,
\* which is falsy as well).
CompareSheets(df1, df2, key_columns, chunk_size, seed) ==
    IF DfEquals(df1, df2) THEN IdenticalResult
    ELSE LET r == ColumnStage(df1, df2, seed)
         IN  IF key_columns # NoKey
             THEN IF KeyColumnsPresent(df1, df2, key_columns)
                  THEN KeyedStage(df1, df2, key_columns, chunk_size, seed, r)
                  ELSE KeyColumnsMissingStage(df1, df2, key_columns, r)
             ELSE PositionalStage(df1, df2, chunk_size, seed, r)


----------------------------------------------------------------------------
(* highlighting.py: highlight_differences_excel                            *)

RED_FILL    == "red"
YELLOW_FILL == "yellow"
GREEN_FILL  == "green"
BLUE_FILL   == "blue"
NoFill      == "none"

\* A cell as pd.read_excel(path, sheet_name=None) gives it: the renderer
\* reads the files again, without optimize_dataframe, so that a missing
\* cell is NaN
PlainCell(cell) == IF cell.kind = "NA" THEN NaNCell ELSE cell

\* cell.fill = colour for every cell of cells
Paint(fills, cells, colour) ==
    [x \in DOMAIN fills |-> IF x \in cells THEN colour ELSE fills[x]]

\* for k, v in row_info.items():
\*     if k in row and str(row[k]) != str(v): match = False
RowMatches(df, j, row_info) ==
    \A k \in DOMAIN row_info :
        k \in ColSet(df) => PyStr(PlainCell(df.rows[j][k])) = row_info[k]

\* the rows of df at which the search for some row_info stops: the first
\* row that matches it
FoundRows(df, row_infos) ==
    {j \in DOMAIN df.rows :
        \E x \in DOMAIN row_infos :
            /\ RowMatches(df, j, row_infos[x])
            /\ \A i \in 1..(j - 1) : ~RowMatches(df, i, row_infos[x])}

\* isinstance(diff.get("key"), dict)
IsKeyed(diff) == "key" \in DOMAIN diff

\* "|".join(f"{col}={row[col]}" for col in key_cols if col in row), written
\* as the function from the column to the text
RowKeyText(df, j, key_cols) ==
    [col \in key_cols \cap ColSet(df) |-> PyStr(PlainCell(df.rows[j][col]))]

\* key_to_row[key_str] = i, row by row: the last row of a key stays
KeyToRow(df, key_cols, key) ==
    CHOOSE j \in DOMAIN df.rows :
        /\ RowKeyText(df, j, key_cols) = key
        /\ \A i \in DOMAIN df.rows : RowKeyText(df, i, key_cols) = key => i <= j

\* the cells filled with YELLOW_FILL: the differences with a key dictionary
\* go through key_to_row, those whose key is the text of a row number go to
\* that row
ValueDiffCells(df1, all_cols, value_diffs) ==
    LET shown == HighlightedDiffs(value_diffs)
        usable == {i \in DOMAIN shown : shown[i].column \in all_cols}
        keyed == {i \in DOMAIN shown : IsKeyed(shown[i])}
        key_cols == IF keyed = {} THEN {}
                    ELSE DOMAIN shown[CHOOSE i \in keyed : \A k \in keyed : i <= k].key
        in_key_to_row(key) ==
            \E j \in DOMAIN df1.rows : RowKeyText(df1, j, key_cols) = key
    IN  {<<KeyToRow(df1, key_cols, shown[i].key) + 1, shown[i].column>> :
            i \in {k \in usable \cap keyed : in_key_to_row(shown[k].key)}}
        \cup {<<shown[i].row + 2, shown[i].column>> : i \in usable \ keyed}

\* the worksheet of a sheet that both workbooks have: the header row, the
\* rows of the first file, then the fills in the order of the code
CommonSheetFills(sheet, df1, df2, ed) ==
    LET all_cols == ColSet(df1) \cup ColSet(df2)
        n1 == Len(df1.rows)
        max_row == IF df1.columns # <<>> THEN n1 + 1 ELSE 1
        written == (1..max_row) \X all_cols
        f0 == [x \in (1..(n1 + Len(df2.rows) + 1)) \X all_cols |-> NoFill]
        f1 == IF sheet \in Range(ed.missing_sheets) THEN Paint(f0, written, RED_FILL) ELSE f0
        f2 == IF sheet \in Range(ed.extra_sheets) THEN Paint(f1, written, GREEN_FILL) ELSE f1
        f3 == IF sheet \in DOMAIN ed.column_differences
              THEN LET col_diffs == ed.column_differences[sheet]
                       c1 == Paint(f2, (1..max_row) \X (Range(col_diffs.missing_columns)
                                                          \cap all_cols), RED_FILL)
                       c2 == Paint(c1, (1..max_row) \X (Range(col_diffs.extra_columns)
                                                          \cap all_cols), GREEN_FILL)
                   IN  Paint(c2, {1} \X (Range(col_diffs.reordered_columns) \cap all_cols),
                             BLUE_FILL)
              ELSE f2
    IN  IF sheet \in DOMAIN ed.row_differences
        THEN LET row_diffs == ed.row_differences[sheet]
                 r1 == Paint(f3, {j + 1 : j \in FoundRows(df1, row_diffs.missing_rows)}
                                 \X ColSet(df1), RED_FILL)
                 r2 == Paint(r1, {j + n1 + 1 : j \in FoundRows(df2, row_diffs.extra_rows)}
                                 \X ColSet(df2), GREEN_FILL)
             IN  IF sheet \in DOMAIN ed.value_differences
                 THEN Paint(r2, ValueDiffCells(df1, all_cols, ed.value_differences[sheet]),
                            YELLOW_FILL)
                 ELSE r2
        ELSE f3

\* the worksheet of a sheet that one workbook has: the header row, then
\* every cell of the rows with the fill
OneSidedSheetFills(df, colour) ==
    [x \in (1..(Len(df.rows) + 1)) \X ColSet(df) |-> IF x[1] >= 2 THEN colour ELSE NoFill]

\* the worksheets of the workbook highlight_differences_excel saves, the
\* summary sheet with the legend apart
HighlightDifferencesExcel(f1, f2, ed) ==
    [sheet \in DOMAIN f1.data \cup DOMAIN f2.data |->
        IF sheet \in DOMAIN f1.data /\ sheet \in DOMAIN f2.data
        THEN CommonSheetFills(sheet, f1.data[sheet], f2.data[sheet], ed)
        ELSE IF sheet \in DOMAIN f1.data
             THEN OneSidedSheetFills(f1.data[sheet], RED_FILL)
             ELSE OneSidedSheetFills(f2.data[sheet], GREEN_FILL)]

----------------------------------------------------------------------------
(* State: one call of compare_sheets                                       *)

VARIABLES
    hash_seed,       \* the interpreter's hash seed in this execution
    \* one call of compare_sheets
    df1, df2,        \* the two dataframes passed to compare_sheets
    key_columns,     \* the key_columns argument (NoKey when absent)
    chunk_size,      \* the chunk_size argument
    sheet_pc,        \* "call" before compare_sheets runs, "returned" after
    sheet_result,    \* what compare_sheets returned
    \* one call of compare_files
    data1, data2,    \* the two inputs, as read_file returns them
    file_pc,         \* where compare_files is: "call", "submit", "collect",
                     \* "returned", "raised" ("idle": not called)
    detailed_report, \* compare_files' detailed_report
    summary_report,  \* compare_files' summary_report
    error_details,   \* compare_files' error_details
    to_submit,       \* the common sheets the submit loop has yet to visit
    futures,         \* future_to_sheet: sheet -> state and result of its task
    merged           \* the sheets whose future as_completed has yielded

VARIABLES
    \* one browser session of app.py
    file1, file2,    \* what the two file_uploader widgets hold
    run_files,       \* file1 and file2 as the script run of the latest
                     \* Compare click saw them
    session_state,   \* st.session_state
    app_pc,          \* where the script run of a Compare click is: "read",
                     \* "compare", "stored", "display" ("idle": no such run)
    displayed,       \* the results the page shows
    \* one call of highlight_differences_excel
    file1_path, file2_path, \* the two workbooks the paths lead to
    hl_error_details,       \* the error_details argument
    hl_pc,           \* "call" before the renderer runs, "returned" after
    wb               \* the workbook it builds: sheet -> cell -> fill

sheetVars == <<df1, df2, key_columns, chunk_size, sheet_pc, sheet_result>>

appVars == <<file1, file2, run_files, session_state, app_pc, displayed>>

hlVars == <<file1_path, file2_path, hl_error_details, hl_pc, wb>>

fileVars == <<data1, data2, file_pc, detailed_report, summary_report, error_details,
              to_submit, futures, merged>>

vars == <<hash_seed, sheetVars, fileVars, appVars, hlVars>>

NoResult == [detailed |-> <<>>, summary |-> <<>>, errors |-> InitErrorDetails]

\* Bounds of the input families
MaxRows == 2
MaxChunk == 2
BigCount == 150

ColNames == {"ID", "Value", "Extra"}

\* every list of distinct column labels
ColLists ==
    {cols \in UNION {[1..n -> ColNames] : n \in 0..Cardinality(ColNames)} :
        \A i, j \in DOMAIN cols : i # j => cols[i] # cols[j]}

KeyChoices == {NoKey, <<"ID">>, <<"ID", "Value">>, <<"Value", "Extra">>}

\* error_details of compare_files as initialised
InitFileErrorDetails ==
    [missing_sheets |-> <<>>, extra_sheets |-> <<>>,
     column_differences |-> <<>>, row_differences |-> <<>>, value_differences |-> <<>>]

NoData == [type |-> "none", sheet_names |-> <<>>, data |-> <<>>]

\* None and a value that is not None
None == <<>>
Some(x) == <<x>>

\* a file_uploader that holds no file
NoFile == [name |-> "", readable |-> FALSE, data |-> NoData]

\* st.session_state after the first script run of a session
InitSessionState ==
    [comparison_complete |-> FALSE, detailed_report |-> None,
     summary_report |-> None, error_details |-> None, highlighted_excel |-> None]

\* the app is not in use
AppIdle ==
    /\ file1 = NoFile
    /\ file2 = NoFile
    /\ run_files = <<NoFile, NoFile>>
    /\ session_state = InitSessionState
    /\ app_pc = "idle"
    /\ displayed = None

\* highlight_differences_excel is not called
HighlightIdle ==
    /\ file1_path = NoData
    /\ file2_path = NoData
    /\ hl_error_details = InitFileErrorDetails
    /\ hl_pc = "idle"
    /\ wb = <<>>

\* compare_files is not called
FilesIdle ==
    /\ data1 = NoData
    /\ data2 = NoData
    /\ file_pc = "idle"
    /\ detailed_report = <<>>
    /\ summary_report = <<>>
    /\ error_details = InitFileErrorDetails
    /\ to_submit = <<>>
    /\ futures = <<>>
    /\ merged = {}

Inputs(t1, t2) ==
    /\ df1 \in t1
    /\ df2 \in t2
    /\ key_columns \in KeyChoices
    /\ chunk_size \in 1..MaxChunk
    /\ hash_seed \in 0..(NumSeeds - 1)
    /\ sheet_pc = "call"
    /\ sheet_result = NoResult
    /\ FilesIdle
    /\ AppIdle
    /\ HighlightIdle

\* Value family: columns ID and Value, every list of at most MaxRows of
\* the rows (1, 1), (1, NaN), (2, NaN), (2, NA)
Row2(id, value) == [c \in {"ID", "Value"} |-> IF c = "ID" THEN id ELSE value]

ValueRows ==
    {Row2(IntCell(1), IntCell(1)), Row2(IntCell(1), NaNCell),
     Row2(IntCell(2), NaNCell), Row2(IntCell(2), NACell)}

ValueTables ==
    {[columns |-> <<"ID", "Value">>, rows |-> rs] :
        rs \in UNION {[1..n -> ValueRows] : n \in 0..MaxRows}}

\* Column family: every column list, rows filled with one cell
UniformTable(cols, n, fill) ==
    [columns |-> cols, rows |-> [i \in 1..n |-> [c \in Range(cols) |-> fill]]]

ColumnTables ==
    {UniformTable(cols, n, IntCell(1)) : cols \in ColLists \ {<<>>}, n \in 0..MaxRows}
    \cup {UniformTable(<<>>, 0, IntCell(1))}

\* Scenario family: the tables of the documented scenarios
Row3(id, value, extra) ==
    [c \in ColNames |-> IF c = "ID" THEN id ELSE IF c = "Value" THEN value ELSE extra]

ScenarioA ==
    [columns |-> <<"ID", "Value">>,
     rows |-> <<Row2(IntCell(1), IntCell(10)), Row2(IntCell(2), IntCell(20))>>]
ScenarioB ==
    [columns |-> <<"ID", "Value">>,
     rows |-> <<Row2(IntCell(1), IntCell(10)), Row2(IntCell(2), IntCell(25))>>]
ScenarioText ==
    [columns |-> <<"ID", "Value">>,
     rows |-> <<Row2(IntCell(1), StrCell("10")), Row2(IntCell(2), StrCell("20"))>>]
ScenarioWide ==
    [columns |-> <<"ID", "Value", "Extra">>,
     rows |-> <<Row3(IntCell(1), IntCell(10), IntCell(7)),
                Row3(IntCell(2), IntCell(20), NaNCell)>>]
ScenarioRotated ==
    [columns |-> <<"Extra", "ID", "Value">>,
     rows |-> <<Row3(IntCell(1), IntCell(10), IntCell(7)),
                Row3(IntCell(2), IntCell(20), NaNCell)>>]
ScenarioThree ==
    [columns |-> <<"ID", "Value">>,
     rows |-> [i \in 1..3 |-> Row2(IntCell(i), IntCell(10 * i))]]
ScenarioFive ==
    [columns |-> <<"ID", "Value">>,
     rows |-> [i \in 1..5 |-> Row2(IntCell(i), IntCell(10 * i))]]
ScenarioDup ==
    [columns |-> <<"ID", "Value">>,
     rows |-> <<Row2(IntCell(1), IntCell(10)), Row2(StrCell("1"), IntCell(30)),
                Row2(IntCell(2), NACell)>>]

ScenarioOther ==
    [columns |-> <<"ID", "Extra">>,
     rows |-> <<[c \in {"ID", "Extra"} |-> IntCell(1)],
                [c \in {"ID", "Extra"} |-> IntCell(3)]>>]

\* a sheet whose header row holds the number 2024
ScenarioYear ==
    [columns |-> <<"ID", "2024">>,
     rows |-> <<[c \in {"ID", "2024"} |-> IntCell(1)],
                [c \in {"ID", "2024"} |-> IntCell(2)]>>]

ScenarioTables ==
    {ScenarioA, ScenarioB, ScenarioText, ScenarioWide, ScenarioRotated,
     ScenarioThree, ScenarioFive, ScenarioDup, ScenarioOther}

\* Key family: one column ID holding the n consecutive keys after lo
KeyTable(lo, n) ==
    [columns |-> <<"ID">>, rows |-> [i \in 1..n |-> [c \in {"ID"} |-> IntCell(lo + i)]]]

KeyTables ==
    {KeyTable(0, RowListCap), KeyTable(0, BigCount), KeyTable(BigCount, RowListCap + 1)}

\* Grid family: a column ID holding the keys 1..n and GridWidth further
\* columns holding one value, ManyRows or DisplayCap \div GridWidth rows
ManyRows == 101
GridWidth == 10

GridValueCols == SubSeq(<<"V1", "V2", "V3", "V4", "V5", "V6", "V7", "V8", "V9", "V10",
                          "V11">>, 1, GridWidth)

GridTable(n, v) ==
    [columns |-> <<"ID">> \o GridValueCols,
     rows |-> [i \in 1..n |->
                 [c \in {"ID"} \cup Range(GridValueCols) |->
                     IF c = "ID" THEN IntCell(i) ELSE IntCell(v)]]]

GridTables ==
    {GridTable(ManyRows, 1), GridTable(ManyRows, 2), GridTable(DisplayCap \div GridWidth, 2)}

InitSheets ==
    \/ Inputs(ValueTables, ValueTables)
    \/ Inputs(ColumnTables, ColumnTables)
    \/ Inputs(ScenarioTables, ScenarioTables)
    \/ Inputs(KeyTables, KeyTables)
    \/ Inputs(GridTables, GridTables)

\* Variant of CompareSheetsCall: the missing cells of df1 are replaced in
\* place by the text "NaN" before the comparison.
CompareSheetsCallFilling ==
    /\ sheet_pc = "call"
    /\ df1' = [df1 EXCEPT !.rows =
                  [i \in DOMAIN df1.rows |->
                      [c \in DOMAIN df1.rows[i] |->
                          IF NotNa(df1.rows[i][c]) THEN df1.rows[i][c] ELSE StrCell("NaN")]]]
    /\ IF CompareSheetsRaises(df1, df2)
       THEN /\ sheet_pc' = "raised"
            /\ UNCHANGED sheet_result
       ELSE /\ sheet_result' = CompareSheets(df1, df2, key_columns, chunk_size, hash_seed)
            /\ sheet_pc' = "returned"
    /\ UNCHANGED <<df2, key_columns, chunk_size, hash_seed, fileVars, appVars, hlVars>>

\* compare_sheets(df1, df2, key_columns, chunk_size) runs and returns, or
\* raises
CompareSheetsCall ==
    /\ sheet_pc = "call"
    /\ IF CompareSheetsRaises(df1, df2)
       THEN /\ sheet_pc' = "raised"
            /\ UNCHANGED sheet_result
       ELSE /\ sheet_result' = CompareSheets(df1, df2, key_columns, chunk_size, hash_seed)
            /\ sheet_pc' = "returned"
    /\ UNCHANGED <<df1, df2, key_columns, chunk_size, hash_seed, fileVars, appVars, hlVars>>

NextSheets == CompareSheetsCall

SpecSheets == InitSheets /\ [][NextSheets]_vars


----------------------------------------------------------------------------
(* compare_files(data1, data2)                                             *)

\* Bound on the sheet names of a workbook
MaxSheets == 3

SheetNameList == <<"Sheet1", "Sheet2", "Sheet3", "Sheet4">>
SheetNames == {SheetNameList[i] : i \in 1..Min(MaxSheets, Len(SheetNameList))}

\* what read_file returns for a workbook whose sheets hold tables of
\* tables: every sheet name has its dataframe in data
Workbooks(tables) ==
    {[type |-> "excel", sheet_names |-> SetToSeq(DOMAIN d), data |-> d] :
        d \in UNION {[names -> tables] : names \in SUBSET SheetNames}}

\* what read_file returns for a flat file
FlatFiles ==
    {[type |-> "csv", sheet_names |-> <<>>, data |-> t] : t \in ScenarioTables \cup GridTables}

\* compare_sheets is not called on its own
SheetsIdle ==
    /\ df1 = UniformTable(<<>>, 0, NaNCell)
    /\ df2 = UniformTable(<<>>, 0, NaNCell)
    /\ key_columns = NoKey
    /\ chunk_size = 1
    /\ sheet_pc = "idle"
    /\ sheet_result = NoResult

\* the tables held by the sheets of the second workbook
SheetTables == {ScenarioA, ScenarioB, ScenarioOther, ScenarioYear}

InitFiles ==
    /\ data1 \in Workbooks({ScenarioA}) \cup FlatFiles
    /\ data2 \in Workbooks(SheetTables) \cup FlatFiles
    /\ hash_seed \in 0..(NumSeeds - 1)
    /\ file_pc = "call"
    /\ detailed_report = <<>>
    /\ summary_report = <<>>
    /\ error_details = InitFileErrorDetails
    /\ to_submit = <<>>
    /\ futures = <<>>
    /\ merged = {}
    /\ SheetsIdle
    /\ AppIdle
    /\ HighlightIdle

\* Truth value of a dict and of a list
DictTruthy(d) == DOMAIN d # {}
ListTruthy(l) == Len(l) > 0

\* chunk_size of compare_sheets when the caller passes none
DefaultChunkSize == 10000

\* Largest number of worker threads of the pool
PoolLimit == 8

\* max_workers=min(8, len(common_sheets))
MaxWorkers(common_sheets) == Min(PoolLimit, Cardinality(common_sheets))

\* sheets1 - sheets2, sheets2 - sheets1 and sheets1 & sheets2
MissingSheets(d1, d2) == Range(d1.sheet_names) \ Range(d2.sheet_names)
ExtraSheets(d1, d2)   == Range(d2.sheet_names) \ Range(d1.sheet_names)
CommonSheets(d1, d2)  == Range(d1.sheet_names) \cap Range(d2.sheet_names)

\* [f(sheet) for sheet in sheets]
SheetLines(tag, sheets) == [i \in DOMAIN sheets |-> Line(tag, <<sheets[i]>>, <<>>)]

TypeMismatchLine == Line("File types are different", <<data1.type, data2.type>>, <<>>)

\* Variant of FilesTypeMismatch: the sheet names of the workbook are
\* recorded as missing before the return.
FilesTypeMismatchPartial ==
    /\ data1.type # data2.type
    /\ detailed_report' = Append(detailed_report, TypeMismatchLine)
    /\ summary_report' = Append(summary_report, TypeMismatchLine)
    /\ error_details' = [error_details EXCEPT !.missing_sheets = data1.sheet_names]
    /\ file_pc' = "returned"
    /\ UNCHANGED <<to_submit, futures, merged>>

\* the branch  if data1["type"] != data2["type"]
FilesTypeMismatch ==
    /\ data1.type # data2.type
    /\ detailed_report' = Append(detailed_report, TypeMismatchLine)
    /\ summary_report' = Append(summary_report, TypeMismatchLine)
    /\ file_pc' = "returned"
    /\ UNCHANGED <<error_details, to_submit, futures, merged>>

\* the branch for two workbooks, up to the creation of the thread pool:
\* ThreadPoolExecutor(max_workers=0) raises ValueError
FilesExcelStart ==
    /\ data1.type = "excel" /\ data2.type = "excel"
    /\ LET missing_sheets == SetOrder(MissingSheets(data1, data2), hash_seed)
           extra_sheets   == SetOrder(ExtraSheets(data1, data2), hash_seed)
           common_sheets  == CommonSheets(data1, data2)
       IN  /\ detailed_report' =
                 detailed_report
                 \o SheetLines("Sheet is in file 1 but missing in file 2", missing_sheets)
                 \o SheetLines("Sheet is in file 2 but missing in file 1", extra_sheets)
           /\ summary_report' =
                 summary_report
                 \o SheetLines("Sheet is missing in file 2", missing_sheets)
                 \o SheetLines("Extra sheet in file 2", extra_sheets)
           /\ error_details' = [error_details EXCEPT !.missing_sheets = missing_sheets,
                                                     !.extra_sheets = extra_sheets]
           /\ IF MaxWorkers(common_sheets) <= 0
              THEN /\ file_pc' = "raised"
                   /\ to_submit' = <<>>
              ELSE /\ file_pc' = "submit"
                   /\ to_submit' = SetOrder(common_sheets, hash_seed)
    /\ UNCHANGED <<futures, merged>>

\* Variant of StoreSheetErrors: every sheet is stored under the one name
\* "data".
StoreSheetErrorsShared(errors, name, sheet_errors) ==
    LET e1 == IF DictTruthy(sheet_errors.column_differences)
              THEN [errors EXCEPT !.column_differences =
                        DictPut(@, "data", sheet_errors.column_differences)]
              ELSE errors
        e2 == IF DictTruthy(sheet_errors.row_differences)
              THEN [e1 EXCEPT !.row_differences =
                        DictPut(@, "data", sheet_errors.row_differences)]
              ELSE e1
    IN  IF ListTruthy(sheet_errors.value_differences)
        THEN [e2 EXCEPT !.value_differences =
                  DictPut(@, "data", sheet_errors.value_differences)]
        ELSE e2

\* what compare_files stores of one sheet's error_details under name
StoreSheetErrors(errors, name, sheet_errors) ==
    LET e1 == IF DictTruthy(sheet_errors.column_differences)
              THEN [errors EXCEPT !.column_differences =
                        DictPut(@, name, sheet_errors.column_differences)]
              ELSE errors
        e2 == IF DictTruthy(sheet_errors.row_differences)
              THEN [e1 EXCEPT !.row_differences =
                        DictPut(@, name, sheet_errors.row_differences)]
              ELSE e1
    IN  IF ListTruthy(sheet_errors.value_differences)
        THEN [e2 EXCEPT !.value_differences =
                  DictPut(@, name, sheet_errors.value_differences)]
        ELSE e2

\* the branch for two flat files
FilesCsv ==
    /\ data1.type = "csv" /\ data2.type = "csv"
    /\ IF CompareSheetsRaises(data1.data, data2.data)
       THEN /\ file_pc' = "raised"
            /\ UNCHANGED <<detailed_report, summary_report, error_details>>
       ELSE LET r == CompareSheets(data1.data, data2.data, NoKey, DefaultChunkSize,
                                   hash_seed)
            IN  /\ detailed_report' = detailed_report \o r.detailed
                /\ summary_report' = summary_report \o r.summary
                /\ error_details' = StoreSheetErrors(error_details, "data", r.errors)
                /\ file_pc' = "returned"
    /\ UNCHANGED <<to_submit, futures, merged>>

\* compare_files is entered
FilesCall ==
    /\ file_pc = "call"
    /\ (FilesTypeMismatch \/ FilesExcelStart \/ FilesCsv)
    /\ UNCHANGED <<hash_seed, data1, data2, sheetVars, appVars, hlVars>>

\* one pass of  for sheet in common_sheets:  the task is submitted when the
\* sheet is in both data dictionaries
SubmitSheet ==
    /\ file_pc = "submit"
    /\ to_submit # <<>>
    /\ LET sheet == Head(to_submit)
       IN  futures' = IF sheet \in DOMAIN data1.data /\ sheet \in DOMAIN data2.data
                      THEN DictPut(futures, sheet, [state |-> "queued", result |-> NoResult])
                      ELSE futures
    /\ to_submit' = Tail(to_submit)
    /\ UNCHANGED <<hash_seed, data1, data2, file_pc, detailed_report, summary_report,
                   error_details, merged, sheetVars, appVars, hlVars>>

\* the submit loop is over, as_completed starts
SubmitDone ==
    /\ file_pc = "submit"
    /\ to_submit = <<>>
    /\ file_pc' = "collect"
    /\ UNCHANGED <<hash_seed, data1, data2, detailed_report, summary_report,
                   error_details, to_submit, futures, merged, sheetVars, appVars, hlVars>>

Running == {s \in DOMAIN futures : futures[s].state = "running"}

\* a free worker thread takes a queued task
StartTask(sheet) ==
    /\ sheet \in DOMAIN futures
    /\ futures[sheet].state = "queued"
    /\ Cardinality(Running) < MaxWorkers(CommonSheets(data1, data2))
    /\ futures' = [futures EXCEPT ![sheet].state = "running"]
    /\ UNCHANGED <<hash_seed, data1, data2, file_pc, detailed_report, summary_report,
                   error_details, to_submit, merged, sheetVars, appVars, hlVars>>

\* Variant of FinishTask: the task is given the key column ID.
FinishTaskKeyed(sheet) ==
    /\ sheet \in DOMAIN futures
    /\ futures[sheet].state = "running"
    /\ futures' = [futures EXCEPT ![sheet] =
          IF CompareSheetsRaises(data1.data[sheet], data2.data[sheet])
          THEN [state |-> "failed", result |-> NoResult]
          ELSE [state |-> "done",
                result |-> CompareSheets(data1.data[sheet], data2.data[sheet], <<"ID">>,
                                         DefaultChunkSize, hash_seed)]]
    /\ UNCHANGED <<hash_seed, data1, data2, file_pc, detailed_report, summary_report,
                   error_details, to_submit, merged, sheetVars, appVars, hlVars>>

\* the task compare_sheets(data1["data"][sheet], data2["data"][sheet]) ends:
\* its future holds the returned triple, or the exception raised
FinishTask(sheet) ==
    /\ sheet \in DOMAIN futures
    /\ futures[sheet].state = "running"
    /\ futures' = [futures EXCEPT ![sheet] =
          IF CompareSheetsRaises(data1.data[sheet], data2.data[sheet])
          THEN [state |-> "failed", result |-> NoResult]
          ELSE [state |-> "done",
                result |-> CompareSheets(data1.data[sheet], data2.data[sheet], NoKey,
                                         DefaultChunkSize, hash_seed)]]
    /\ UNCHANGED <<hash_seed, data1, data2, file_pc, detailed_report, summary_report,
                   error_details, to_submit, merged, sheetVars, appVars, hlVars>>

\* one pass of  for future in as_completed(future_to_sheet)
MergeResult(sheet) ==
    /\ file_pc = "collect"
    /\ sheet \in DOMAIN futures
    /\ sheet \notin merged
    /\ futures[sheet].state = "done"
    /\ LET r == futures[sheet].result
           any_errors == \/ DictTruthy(r.errors.column_differences)
                         \/ DictTruthy(r.errors.row_differences)
                         \/ ListTruthy(r.errors.value_differences)
       IN  IF any_errors
           THEN /\ detailed_report' = detailed_report \o r.detailed
                /\ summary_report' = summary_report \o r.summary
                /\ error_details' = StoreSheetErrors(error_details, sheet, r.errors)
           ELSE UNCHANGED <<detailed_report, summary_report, error_details>>
    /\ merged' = merged \cup {sheet}
    /\ UNCHANGED <<hash_seed, data1, data2, file_pc, to_submit, futures, sheetVars, appVars, hlVars>>

\* Variant of MergeFailure: the exception of future.result() is not caught
\* and leaves compare_files.
MergeFailureAborts(sheet) ==
    /\ file_pc = "collect"
    /\ sheet \in DOMAIN futures
    /\ sheet \notin merged
    /\ futures[sheet].state = "failed"
    /\ file_pc' = "raised"
    /\ merged' = merged \cup {sheet}
    /\ UNCHANGED <<hash_seed, data1, data2, detailed_report, summary_report,
                   error_details, to_submit, futures, sheetVars, appVars, hlVars>>

\* one pass of  for future in as_completed(future_to_sheet)  whose
\* future.result() raises: the except clause shows the error and the loop
\* goes on
MergeFailure(sheet) ==
    /\ file_pc = "collect"
    /\ sheet \in DOMAIN futures
    /\ sheet \notin merged
    /\ futures[sheet].state = "failed"
    /\ merged' = merged \cup {sheet}
    /\ UNCHANGED <<hash_seed, data1, data2, file_pc, detailed_report, summary_report,
                   error_details, to_submit, futures, sheetVars, appVars, hlVars>>

\* Variant of FilesReturn: compare_files returns without waiting for the
\* results that are still to be merged.
FilesReturnEarly ==
    /\ file_pc = "collect"
    /\ file_pc' = "returned"
    /\ UNCHANGED <<hash_seed, data1, data2, detailed_report, summary_report,
                   error_details, to_submit, futures, merged, sheetVars, appVars, hlVars>>

\* as_completed is exhausted, the pool shuts down, compare_files returns
FilesReturn ==
    /\ file_pc = "collect"
    /\ merged = DOMAIN futures
    /\ file_pc' = "returned"
    /\ UNCHANGED <<hash_seed, data1, data2, detailed_report, summary_report,
                   error_details, to_submit, futures, merged, sheetVars, appVars, hlVars>>

NextFiles ==
    \/ FilesCall
    \/ SubmitSheet
    \/ SubmitDone
    \/ \E sheet \in SheetNames : StartTask(sheet)
    \/ \E sheet \in SheetNames : FinishTask(sheet)
    \/ \E sheet \in SheetNames : MergeResult(sheet)
    \/ \E sheet \in SheetNames : MergeFailure(sheet)
    \/ FilesReturn

SpecFiles == InitFiles /\ [][NextFiles]_vars


\* Both entry points together
Init == InitSheets \/ InitFiles

Next == NextSheets \/ NextFiles

Spec == Init /\ [][Next]_vars

----------------------------------------------------------------------------
(* app.py: one browser session                                             *)

\* what read_file returns for a workbook whose sheets are the domain of d
Workbook(d) == [type |-> "excel", sheet_names |-> SetToSeq(DOMAIN d), data |-> d]

\* The files a user uploads: three workbooks, a flat file, and a workbook
\* pd.ExcelFile cannot open. data is what read_file returns for the file.
UploadedFiles ==
    {[name |-> "a.xlsx", readable |-> TRUE,
      data |-> Workbook([n \in {"Sheet1", "Sheet2"} |-> ScenarioA])],
     [name |-> "y.xlsx", readable |-> TRUE,
      data |-> Workbook([n \in {"Sheet1", "Sheet2"} |->
                            IF n = "Sheet1" THEN ScenarioB ELSE ScenarioYear])],
     [name |-> "c.xlsx", readable |-> TRUE,
      data |-> Workbook([n \in {"Sheet3"} |-> ScenarioA])],
     [name |-> "d.csv", readable |-> TRUE,
      data |-> [type |-> "csv", sheet_names |-> <<>>, data |-> ScenarioB]],
     [name |-> "bad.xlsx", readable |-> FALSE, data |-> NoData]}

\* any(st.session_state.error_details.values())
AnyErrorDetails(ed) ==
    \/ ListTruthy(ed.missing_sheets)
    \/ ListTruthy(ed.extra_sheets)
    \/ DictTruthy(ed.column_differences)
    \/ DictTruthy(ed.row_differences)
    \/ DictTruthy(ed.value_differences)

\* for sheet, diffs in ...["value_differences"].items():
\*     for diff in diffs: diff['sheet'] = sheet
AnnotateSheet(ed) ==
    [ed EXCEPT !.value_differences =
        [sheet \in DOMAIN ed.value_differences |->
            [i \in DOMAIN ed.value_differences[sheet] |->
                [sheet |-> sheet] @@ ed.value_differences[sheet][i]]]]

\* the value-difference records without the key display_comparison_results
\* adds to them
WithoutSheet(ed) ==
    [ed EXCEPT !.value_differences =
        [sheet \in DOMAIN ed.value_differences |->
            [i \in DOMAIN ed.value_differences[sheet] |->
                [k \in DOMAIN ed.value_differences[sheet][i] \ {"sheet"} |->
                    ed.value_differences[sheet][i][k]]]]]

\* display_comparison_results reaches the loop over the value differences
ReachesValueDifferences(ss) ==
    /\ ListTruthy(ss.summary_report[1])
    /\ AnyErrorDetails(ss.error_details[1])
    /\ DictTruthy(ss.error_details[1].value_differences)

\* st.session_state after display_comparison_results
AfterDisplay(ss) ==
    IF ReachesValueDifferences(ss)
    THEN [ss EXCEPT !.error_details = Some(AnnotateSheet(ss.error_details[1]))]
    ELSE ss

\* what display_comparison_results puts on the page
Page(ss) ==
    Some([summary_report |-> ss.summary_report[1],
          detailed_report |-> ss.detailed_report[1],
          error_details |-> AfterDisplay(ss).error_details[1]])

\* the end of every script run:
\*   if file1 is not None and file2 is not None: ...
\*       if st.session_state.comparison_complete: display_comparison_results()
EndOfRun(f1, f2, ss) ==
    /\ app_pc' = "idle"
    /\ IF f1 # NoFile /\ f2 # NoFile /\ ss.comparison_complete
       THEN /\ session_state' = AfterDisplay(ss)
            /\ displayed' = Page(ss)
       ELSE /\ session_state' = ss
            /\ displayed' = None

\* The user changes what the first uploader holds: the running script, if
\* any, is stopped and the script runs again, the button not clicked.
UploadFile1(f) ==
    /\ f # file1
    /\ file1' = f
    /\ EndOfRun(f, file2, session_state)
    /\ UNCHANGED <<file2, run_files, hash_seed, fileVars, sheetVars, hlVars>>

\* the same for the second uploader
UploadFile2(f) ==
    /\ f # file2
    /\ file2' = f
    /\ EndOfRun(file1, f, session_state)
    /\ UNCHANGED <<file1, run_files, hash_seed, fileVars, sheetVars, hlVars>>

\* if st.button("Compare Files"):  the session state is reset
ClickCompare ==
    /\ file1 # NoFile /\ file2 # NoFile
    /\ run_files' = <<file1, file2>>
    /\ session_state' = InitSessionState
    /\ app_pc' = "read"
    /\ displayed' = None
    /\ UNCHANGED <<file1, file2, hash_seed, fileVars, sheetVars, hlVars>>

\* data1 = read_file(file1); data2 = read_file(file2), then compare_files
\* is entered; pd.ExcelFile raises on a workbook it cannot open and the
\* script run ends
ReadFiles ==
    /\ app_pc = "read"
    /\ IF run_files[1].readable /\ run_files[2].readable
       THEN /\ data1' = run_files[1].data
            /\ data2' = run_files[2].data
            /\ file_pc' = "call"
            /\ detailed_report' = <<>>
            /\ summary_report' = <<>>
            /\ error_details' = InitFileErrorDetails
            /\ to_submit' = <<>>
            /\ futures' = <<>>
            /\ merged' = {}
            /\ app_pc' = "compare"
       ELSE /\ app_pc' = "idle"
            /\ UNCHANGED fileVars
    /\ UNCHANGED <<file1, file2, run_files, session_state, displayed,
                   hash_seed, sheetVars, hlVars>>

\* compare_files returned: the three results are stored in the session state
StoreResults ==
    /\ app_pc = "compare"
    /\ file_pc = "returned"
    /\ session_state' = [session_state EXCEPT
                            !.detailed_report = Some(detailed_report),
                            !.summary_report = Some(summary_report),
                            !.error_details = Some(error_details)]
    /\ app_pc' = "stored"
    /\ UNCHANGED <<file1, file2, run_files, displayed, hash_seed, fileVars, sheetVars, hlVars>>

\* compare_files raised: the script run ends
CompareRaised ==
    /\ app_pc = "compare"
    /\ file_pc = "raised"
    /\ app_pc' = "idle"
    /\ UNCHANGED <<file1, file2, run_files, session_state, displayed,
                   hash_seed, fileVars, sheetVars, hlVars>>

\* the highlighting block, which catches what it raises, offers the
\* workbook it wrote for download and removes its temporary files, then
\* st.session_state.comparison_complete = True
MarkComplete ==
    /\ app_pc = "stored"
    /\ session_state' = [session_state EXCEPT !.comparison_complete = TRUE]
    /\ app_pc' = "display"
    /\ UNCHANGED <<file1, file2, run_files, displayed, hash_seed, fileVars, sheetVars, hlVars>>

\* the script run of the click reaches its end
DisplayResults ==
    /\ app_pc = "display"
    /\ EndOfRun(run_files[1], run_files[2], session_state)
    /\ UNCHANGED <<file1, file2, run_files, hash_seed, fileVars, sheetVars, hlVars>>

InitApp ==
    /\ hash_seed \in 0..(NumSeeds - 1)
    /\ SheetsIdle
    /\ FilesIdle
    /\ AppIdle
    /\ HighlightIdle

NextApp ==
    \/ \E f \in UploadedFiles \cup {NoFile} : UploadFile1(f)
    \/ \E f \in UploadedFiles \cup {NoFile} : UploadFile2(f)
    \/ ClickCompare
    \/ ReadFiles
    \/ StoreResults
    \/ CompareRaised
    \/ MarkComplete
    \/ DisplayResults
    \/ NextFiles

SpecApp == InitApp /\ [][NextApp]_vars

----------------------------------------------------------------------------
(* highlight_differences_excel: one call                                   *)

\* a table whose two rows have the same ID
ScenarioRepeat ==
    [columns |-> <<"ID", "Value">>,
     rows |-> <<Row2(IntCell(3), IntCell(10)), Row2(IntCell(3), IntCell(20))>>]

\* the tables of the sheet both workbooks have
RenderedTables == ScenarioTables \cup {ScenarioRepeat}

\* a workbook with the table t in Sheet1 and, when own is not empty, a
\* sheet of that name
RenderedWorkbook(t, own) ==
    Workbook([n \in {"Sheet1"} \cup own |-> IF n = "Sheet1" THEN t ELSE ScenarioA])

\* error_details as compare_files assembles it for the two workbooks, the
\* sheet they share compared by compare_sheets with key_cols
RenderedFindings(f1, f2, key_cols, seed) ==
    StoreSheetErrors(
        [InitFileErrorDetails EXCEPT
            !.missing_sheets = SetOrder(MissingSheets(f1, f2), seed),
            !.extra_sheets = SetOrder(ExtraSheets(f1, f2), seed)],
        "Sheet1",
        CompareSheets(f1.data["Sheet1"], f2.data["Sheet1"], key_cols,
                      DefaultChunkSize, seed).errors)

\* the arguments of one call
HighlightInputs(t1, t2, keys) ==
    \E own1 \in {{}, {"Sheet2"}}, own2 \in {{}, {"Sheet3"}}, key_cols \in keys :
        /\ file1_path = RenderedWorkbook(t1, own1)
        /\ file2_path = RenderedWorkbook(t2, own2)
        /\ hl_error_details = RenderedFindings(RenderedWorkbook(t1, own1),
                                               RenderedWorkbook(t2, own2),
                                               key_cols, hash_seed)

InitHighlight ==
    /\ hash_seed \in 0..(NumSeeds - 1)
    /\ \/ \E t1, t2 \in RenderedTables : HighlightInputs(t1, t2, KeyChoices)
       \/ \E t1, t2 \in GridTables : HighlightInputs(t1, t2, {NoKey})
    /\ hl_pc = "call"
    /\ wb = <<>>
    /\ SheetsIdle
    /\ FilesIdle
    /\ AppIdle

\* highlight_differences_excel(file1_path, file2_path, output_path,
\* error_details) runs and returns
HighlightCall ==
    /\ hl_pc = "call"
    /\ wb' = HighlightDifferencesExcel(file1_path, file2_path, hl_error_details)
    /\ hl_pc' = "returned"
    /\ UNCHANGED <<file1_path, file2_path, hl_error_details, hash_seed,
                   sheetVars, fileVars, appVars>>

NextHighlight == HighlightCall

SpecHighlight == InitHighlight /\ [][NextHighlight]_vars

----------------------------------------------------------------------------
(* Properties                                                              *)

\* C1 (Identity): compare_sheets(T, T) returns an empty result for every
\* table T, with or without key columns and for every chunk size: no
\* missing, extra or reordered columns, count_diff 0, no missing or extra
\* rows, no value differences, and both reports empty.
C1_Identity ==
    (sheet_pc = "returned" /\ df1 = df2) =>
        /\ sheet_result.detailed = <<>>
        /\ sheet_result.summary = <<>>
        /\ sheet_result.errors.column_differences.missing_columns = <<>>
        /\ sheet_result.errors.column_differences.extra_columns = <<>>
        /\ sheet_result.errors.column_differences.reordered_columns = <<>>
        /\ sheet_result.errors.row_differences.count_diff = 0
        /\ sheet_result.errors.row_differences.missing_rows = <<>>
        /\ sheet_result.errors.row_differences.extra_rows = <<>>
        /\ sheet_result.errors.value_differences = <<>>

\* C1 witness: a table with two rows and a missing cell was compared with
\* itself under a key.
C1_Witness ==
    /\ sheet_pc = "returned"
    /\ df1 = df2
    /\ key_columns = <<"ID">>
    /\ df1.columns = <<"ID", "Value">>
    /\ Len(df1.rows) = 2
    /\ \E i \in DOMAIN df1.rows : df1.rows[i]["Value"] = NaNCell

\* C2 (Reordering among common columns), as claimed: a column is listed in
\* reordered_columns exactly when it is common to both tables and its index
\* in A's column order filtered to the common columns differs from its
\* index in B's column order filtered to the common columns.
C2_ReorderAmongCommon ==
    sheet_pc = "returned" =>
        LET common == Range(df1.columns) \cap Range(df2.columns)
            sub1 == SelectSeq(df1.columns, LAMBDA c : c \in common)
            sub2 == SelectSeq(df2.columns, LAMBDA c : c \in common)
        IN  Range(sheet_result.errors.column_differences.reordered_columns)
              = {c \in common : IndexOf(sub1, c) # IndexOf(sub2, c)}

\* C3 (compare_files always returns), as claimed: compare_files never
\* raises, and when the two workbooks share no sheet name it returns with
\* missing_sheets the names of A, extra_sheets the names of B and no table
\* comparison run.
C3_AlwaysReturns ==
    /\ file_pc # "raised"
    /\ (file_pc = "returned" /\ data1.type = "excel" /\ data2.type = "excel"
          /\ Range(data1.sheet_names) \cap Range(data2.sheet_names) = {}) =>
            /\ Range(error_details.missing_sheets) = Range(data1.sheet_names)
            /\ Range(error_details.extra_sheets) = Range(data2.sheet_names)
            /\ DOMAIN futures = {}

\* C4 (No differences, empty structured result), as claimed: when the two
\* inputs are workbooks with the same sheet names and identical same-named
\* tables, or two identical flat tables, the returned error_details has no
\* missing or extra sheet and no entry for any sheet under
\* column_differences, row_differences or value_differences, and both
\* reports are empty.
C4_CleanResultEmpty ==
    (file_pc = "returned" /\ data1 = data2) =>
        /\ error_details.missing_sheets = <<>>
        /\ error_details.extra_sheets = <<>>
        /\ DOMAIN error_details.column_differences = {}
        /\ DOMAIN error_details.row_differences = {}
        /\ DOMAIN error_details.value_differences = {}
        /\ detailed_report = <<>>
        /\ summary_report = <<>>

\* C5 (Key columns not found), as claimed: whenever a requested key column
\* is absent from A or from B, no rows are matched and no values compared,
\* the column differences and count_diff are those of the comparison
\* without a key, and the detailed report has a line naming exactly the
\* requested key columns that are absent from at least one table.
C5_KeyColumnsNotFound ==
    (/\ sheet_pc = "returned"
     /\ \E i \in DOMAIN key_columns :
           key_columns[i] \notin Range(df1.columns) \cap Range(df2.columns)) =>
        LET plain == CompareSheets(df1, df2, NoKey, chunk_size, hash_seed)
            absent == {key_columns[i] : i \in
                         {j \in DOMAIN key_columns :
                            key_columns[j] \notin Range(df1.columns) \cap Range(df2.columns)}}
        IN  /\ sheet_result.errors.value_differences = <<>>
            /\ sheet_result.errors.row_differences.missing_rows = <<>>
            /\ sheet_result.errors.row_differences.extra_rows = <<>>
            /\ sheet_result.errors.column_differences = plain.errors.column_differences
            /\ sheet_result.errors.row_differences.count_diff
                  = plain.errors.row_differences.count_diff
            /\ \E i \in DOMAIN sheet_result.detailed :
                  /\ sheet_result.detailed[i].tag = "Key columns not found in both dataframes"
                  /\ Range(sheet_result.detailed[i].names) = absent

\* C5, amended: the same, for two tables that are not identical; for
\* identical tables the quick check returns the empty result before the
\* key columns are looked at.
C5_KeyColumnsNotFoundAmended == df1 # df2 => C5_KeyColumnsNotFound

\* C5 witness: the key is [ID, Value], Value is missing from B only, and
\* the report names Value alone.
C5_Witness ==
    /\ sheet_pc = "returned"
    /\ key_columns = <<"ID", "Value">>
    /\ "ID" \in Range(df1.columns) \cap Range(df2.columns)
    /\ "Value" \in Range(df1.columns) \ Range(df2.columns)
    /\ Len(df1.rows) # Len(df2.rows)
    /\ \E i \in DOMAIN sheet_result.detailed :
          /\ sheet_result.detailed[i].tag = "Key columns not found in both dataframes"
          /\ sheet_result.detailed[i].names = <<"Value">>


\* C6 (Keyed value comparison): with all key columns in both tables and no
\* key occurring twice in a table, value_differences holds exactly one
\* record {key, column, value1, value2} for every key present in both
\* tables and every common column whose normalized cells differ, and no
\* other record; key maps each key column to the key's value, value1 and
\* value2 are the normalized cells of A and B.
C6_KeyedValueDifferences ==
    LET common == Range(df1.columns) \cap Range(df2.columns)
        kv(row) == [i \in DOMAIN key_columns |-> row[key_columns[i]].text]
        nodup(df) == \A i, j \in DOMAIN df.rows :
                        i # j => kv(df.rows[i]) # kv(df.rows[j])
        norm(cell) == IF cell.kind \in {"nan", "NA"} THEN "NaN" ELSE cell.text
        matched == {p \in (DOMAIN df1.rows) \X (DOMAIN df2.rows) \X common :
                      /\ kv(df1.rows[p[1]]) = kv(df2.rows[p[2]])
                      /\ norm(df1.rows[p[1]][p[3]]) # norm(df2.rows[p[2]][p[3]])}
        expected == {[key    |-> [c \in Range(key_columns) |-> df1.rows[p[1]][c].text],
                      column |-> p[3],
                      value1 |-> norm(df1.rows[p[1]][p[3]]),
                      value2 |-> norm(df2.rows[p[2]][p[3]])] : p \in matched}
        vd == sheet_result.errors.value_differences
    IN  (/\ sheet_pc = "returned"
         /\ key_columns # <<>>
         /\ Range(key_columns) \subseteq common
         /\ nodup(df1) /\ nodup(df2)) =>
            /\ Range(vd) = expected
            /\ Len(vd) = Cardinality(expected)

\* C6 witness: A rows [(1,10),(2,20)], B rows [(1,10),(2,25)], key [ID]
\* gave the single record key {ID: 2}, column Value, "20", "25".
C6_Witness ==
    /\ sheet_pc = "returned"
    /\ df1 = ScenarioA /\ df2 = ScenarioB
    /\ key_columns = <<"ID">>
    /\ sheet_result.errors.value_differences
          = <<[key |-> [c \in {"ID"} |-> "2"], column |-> "Value",
               value1 |-> "20", value2 |-> "25"]>>

\* C7 (Missing/extra row truncation): in keyed mode, with m keys only in A
\* and e keys only in B, missing_rows lists min(m, 100) distinct A-only
\* keys and extra_rows min(e, 100) distinct B-only keys, while the reports
\* state the counts m and e.
C7_RowListTruncation ==
    LET common == Range(df1.columns) \cap Range(df2.columns)
        kv(row) == [i \in DOMAIN key_columns |-> row[key_columns[i]].text]
        keys(df) == {kv(df.rows[i]) : i \in DOMAIN df.rows}
        asdict(k) == [c \in Range(key_columns) |-> k[IndexOf(key_columns, c) + 1]]
        listedOk(l, ks) ==
            /\ Len(l) = Min(Cardinality(ks), 100)
            /\ \A i, j \in DOMAIN l : i # j => l[i] # l[j]
            /\ \A i \in DOMAIN l : \E k \in ks : l[i] = asdict(k)
        counted(report, tag, ks) ==
            /\ \A i \in DOMAIN report :
                  report[i].tag = tag => report[i].nums = <<Cardinality(ks)>>
            /\ ks # {} => \E i \in DOMAIN report : report[i].tag = tag
    IN  (/\ sheet_pc = "returned"
         /\ key_columns # <<>>
         /\ Range(key_columns) \subseteq common) =>
            LET m == keys(df1) \ keys(df2)
                e == keys(df2) \ keys(df1)
            IN  /\ listedOk(sheet_result.errors.row_differences.missing_rows, m)
                /\ listedOk(sheet_result.errors.row_differences.extra_rows, e)
                /\ counted(sheet_result.detailed, "Missing rows in second file", m)
                /\ counted(sheet_result.summary, "Missing rows", m)
                /\ counted(sheet_result.detailed, "Extra rows in second file", e)
                /\ counted(sheet_result.summary, "Extra rows", e)

\* C7 witness: 150 keys are only in A and 101 only in B; each list has 100
\* entries and the summary states 150 and 101.
C7_Witness ==
    /\ sheet_pc = "returned"
    /\ key_columns = <<"ID">>
    /\ Len(df1.rows) = 150 /\ Len(df2.rows) = 101
    /\ Len(sheet_result.errors.row_differences.missing_rows) = 100
    /\ Len(sheet_result.errors.row_differences.extra_rows) = 100
    /\ \E i \in DOMAIN sheet_result.summary :
          sheet_result.summary[i] = Line("Missing rows", <<>>, <<150>>)
    /\ \E i \in DOMAIN sheet_result.summary :
          sheet_result.summary[i] = Line("Extra rows", <<>>, <<101>>)

\* C8 (Chunk-invariance): for the same tables and key, the result for any
\* chunk size has the same column differences, the same row differences,
\* the same set and number of value-difference records and the same reports
\* as the result for a chunk size larger than both tables (and so as the
\* result for any other chunk size); only the order of the records in
\* value_differences may differ.
C8_ChunkInvariance ==
    sheet_pc = "returned" =>
        \A c2 \in {MaxChunk + 1, 10000} :
            LET other == CompareSheets(df1, df2, key_columns, c2, hash_seed)
            IN  /\ other.errors.column_differences = sheet_result.errors.column_differences
                /\ other.errors.row_differences = sheet_result.errors.row_differences
                /\ Range(other.errors.value_differences)
                      = Range(sheet_result.errors.value_differences)
                /\ Len(other.errors.value_differences)
                      = Len(sheet_result.errors.value_differences)
                /\ other.detailed = sheet_result.detailed
                /\ other.summary = sheet_result.summary

\* C8 witness: a positional comparison in chunks of one row found four
\* differences, which chunks of two rows list in another order.
C8_Witness ==
    /\ sheet_pc = "returned"
    /\ key_columns = <<>>
    /\ chunk_size = 1
    /\ Len(sheet_result.errors.value_differences) = 4
    /\ CompareSheets(df1, df2, key_columns, 2, hash_seed).errors.value_differences
          # sheet_result.errors.value_differences

\* C9 (Same normalization in both modes), as claimed: in keyed and in
\* positional mode a missing cell counts as "NaN" and any other cell as its
\* string form; matched cells are reported exactly when these differ, and
\* value1 and value2 are these normalized strings.
C9_SameNormalization ==
    LET common == Range(df1.columns) \cap Range(df2.columns)
        norm(cell) == IF cell.kind \in {"nan", "NA"} THEN "NaN" ELSE cell.text
        kv(row) == [c \in Range(key_columns) |-> row[c].text]
        vd == sheet_result.errors.value_differences
        min_rows == Min(Len(df1.rows), Len(df2.rows))
    IN  /\ (sheet_pc = "returned" /\ key_columns = <<>>) =>
              /\ \A i \in 1..min_rows : \A c \in common :
                    (\E x \in DOMAIN vd : vd[x].row = i - 1 /\ vd[x].column = c)
                      <=> (df1 # df2 /\ norm(df1.rows[i][c]) # norm(df2.rows[i][c]))
              /\ \A x \in DOMAIN vd :
                    /\ vd[x].value1 = norm(df1.rows[vd[x].row + 1][vd[x].column])
                    /\ vd[x].value2 = norm(df2.rows[vd[x].row + 1][vd[x].column])
        /\ (sheet_pc = "returned" /\ key_columns # <<>>
              /\ Range(key_columns) \subseteq common) =>
              \A x \in DOMAIN vd :
                 \E i \in DOMAIN df1.rows, j \in DOMAIN df2.rows :
                    /\ kv(df1.rows[i]) = vd[x].key
                    /\ kv(df2.rows[j]) = vd[x].key
                    /\ vd[x].value1 = norm(df1.rows[i][vd[x].column])
                    /\ vd[x].value2 = norm(df2.rows[j][vd[x].column])
                    /\ vd[x].value1 # vd[x].value2

C11_SheetFailureIsolation ==
    (data1.type = "excel" /\ data2.type = "excel") =>
        LET common == Range(data1.sheet_names) \cap Range(data2.sheet_names)
            failing == {s \in common : CompareSheetsRaises(data1.data[s], data2.data[s])}
            others == common \ failing
            alone(s) == CompareSheets(data1.data[s], data2.data[s], NoKey, 10000, hash_seed)
            orders == {o \in [1..Cardinality(others) -> others] :
                          \A i, j \in DOMAIN o : i # j => o[i] # o[j]}
            head_d == SheetLines("Sheet is in file 1 but missing in file 2",
                                 error_details.missing_sheets)
                      \o SheetLines("Sheet is in file 2 but missing in file 1",
                                    error_details.extra_sheets)
            head_s == SheetLines("Sheet is missing in file 2", error_details.missing_sheets)
                      \o SheetLines("Extra sheet in file 2", error_details.extra_sheets)
        IN  failing # {} =>
              /\ file_pc # "raised"
              /\ (file_pc = "collect" /\ merged = DOMAIN futures) => ENABLED FilesReturn
              /\ file_pc = "returned" =>
                    /\ DOMAIN error_details.column_differences = others
                    /\ DOMAIN error_details.row_differences = others
                    /\ DOMAIN error_details.value_differences
                          = {s \in others : alone(s).errors.value_differences # <<>>}
                    /\ \A s \in others :
                          /\ error_details.column_differences[s]
                                = alone(s).errors.column_differences
                          /\ error_details.row_differences[s]
                                = alone(s).errors.row_differences
                    /\ \A s \in DOMAIN error_details.value_differences :
                          error_details.value_differences[s]
                             = alone(s).errors.value_differences
                    /\ \E o \in orders :
                          /\ detailed_report
                                = head_d \o FlattenSeq([i \in DOMAIN o |-> alone(o[i]).detailed])
                          /\ summary_report
                                = head_s \o FlattenSeq([i \in DOMAIN o |-> alone(o[i]).summary])

\* C11 witness: compare_files returned although the task of Sheet1 raised,
\* and the value difference of Sheet2 and the column differences of Sheet3
\* are in the result.
C11_Witness ==
    /\ file_pc = "returned"
    /\ "Sheet1" \in DOMAIN futures /\ futures["Sheet1"].state = "failed"
    /\ "Sheet2" \in DOMAIN error_details.value_differences
    /\ "Sheet3" \in DOMAIN error_details.column_differences
    /\ error_details.column_differences["Sheet3"].extra_columns = <<"Extra">>
    /\ "Sheet1" \notin DOMAIN error_details.column_differences


\* C12 (Completion-order independence of error_details): the error_details
\* returned for two workbooks is fixed by the workbooks, whatever the order
\* in which the sheet tasks completed: every common sheet whose comparison
\* returned has its own column and row differences, and its value
\* differences when there are any, under its own name, and there is no
\* other entry.
C12_OrderIndependentDetails ==
    (file_pc = "returned" /\ data1.type = "excel" /\ data2.type = "excel") =>
        LET common == Range(data1.sheet_names) \cap Range(data2.sheet_names)
            compared == {s \in common :
                            ~CompareSheetsRaises(data1.data[s], data2.data[s])}
            alone(s) == CompareSheets(data1.data[s], data2.data[s], NoKey, 10000, hash_seed)
        IN  /\ Range(error_details.missing_sheets)
                  = Range(data1.sheet_names) \ Range(data2.sheet_names)
            /\ Range(error_details.extra_sheets)
                  = Range(data2.sheet_names) \ Range(data1.sheet_names)
            /\ error_details.column_differences
                  = [s \in compared |-> alone(s).errors.column_differences]
            /\ error_details.row_differences
                  = [s \in compared |-> alone(s).errors.row_differences]
            /\ error_details.value_differences
                  = [s \in {t \in compared : alone(t).errors.value_differences # <<>>} |->
                        alone(s).errors.value_differences]

\* C12 witness: two sheets with different findings were merged in the
\* order opposite to the one in which they were submitted (the report
\* starts with the lines of the sheet submitted later), and each has its
\* own entry.
C12_Witness ==
    /\ file_pc = "returned"
    /\ data1.type = "excel" /\ data2.type = "excel"
    /\ \E s, t \in DOMAIN error_details.column_differences :
          LET submitted == SetOrder(CommonSheets(data1, data2), hash_seed)
          IN  /\ IndexOf(submitted, s) < IndexOf(submitted, t)
              /\ futures[t].result.detailed # <<>>
              /\ futures[s].result.detailed # <<>>
              /\ futures[s].result.detailed # futures[t].result.detailed
              /\ detailed_report = futures[t].result.detailed \o futures[s].result.detailed
              /\ error_details.column_differences[s] # error_details.column_differences[t]

\* C13 (Stable report order), as claimed: the detailed and the summary
\* report returned for two workbooks are the sheet lines followed by the
\* report lines of the compared sheets in the one order in which the sheets
\* were submitted, whichever task finished first.
C13_StableReportOrder ==
    (file_pc = "returned" /\ data1.type = "excel" /\ data2.type = "excel") =>
        LET submitted == SetOrder(CommonSheets(data1, data2), hash_seed)
            compared == SelectSeq(submitted,
                           LAMBDA s : ~CompareSheetsRaises(data1.data[s], data2.data[s]))
            alone(s) == CompareSheets(data1.data[s], data2.data[s], NoKey, 10000, hash_seed)
            head_d == SheetLines("Sheet is in file 1 but missing in file 2",
                                 error_details.missing_sheets)
                      \o SheetLines("Sheet is in file 2 but missing in file 1",
                                    error_details.extra_sheets)
            head_s == SheetLines("Sheet is missing in file 2", error_details.missing_sheets)
                      \o SheetLines("Extra sheet in file 2", error_details.extra_sheets)
        IN  /\ detailed_report
                  = head_d \o FlattenSeq([i \in DOMAIN compared |-> alone(compared[i]).detailed])
            /\ summary_report
                  = head_s \o FlattenSeq([i \in DOMAIN compared |-> alone(compared[i]).summary])

\* C14 (Input type mismatch fails fast): when one input is a workbook and
\* the other a flat table, compare_files returns at once: no sheet task is
\* submitted or run, every field of error_details is empty, and each report
\* is the single line naming the two types.
C14_TypeMismatchFailsFast ==
    (data1.type # data2.type /\ file_pc \notin {"idle", "call"}) =>
        /\ file_pc = "returned"
        /\ to_submit = <<>>
        /\ futures = <<>>
        /\ merged = {}
        /\ error_details.missing_sheets = <<>>
        /\ error_details.extra_sheets = <<>>
        /\ DOMAIN error_details.column_differences = {}
        /\ DOMAIN error_details.row_differences = {}
        /\ DOMAIN error_details.value_differences = {}
        /\ detailed_report
              = <<[tag |-> "File types are different",
                   names |-> <<data1.type, data2.type>>, nums |-> <<>>]>>
        /\ summary_report = detailed_report

\* C14 witness: a workbook with three sheets was compared with a flat
\* table and the call returned.
C14_Witness ==
    /\ file_pc = "returned"
    /\ data1.type = "excel" /\ data2.type = "csv"
    /\ Len(data1.sheet_names) = 3
    /\ detailed_report # <<>>

\* C15 (Workbook sheet partition), as claimed: for any two workbooks
\* compare_files returns with missing_sheets the names in A and not in B
\* and extra_sheets the names in B and not in A, having run the table
\* comparator once for each name in both and for no other name; the three
\* sets are pairwise disjoint and cover the names of both workbooks.
C15_SheetPartition ==
    (data1.type = "excel" /\ data2.type = "excel" /\ file_pc \in {"returned", "raised"}) =>
        LET namesA == Range(data1.sheet_names)
            namesB == Range(data2.sheet_names)
            missing == Range(error_details.missing_sheets)
            extra == Range(error_details.extra_sheets)
            compared == DOMAIN futures
        IN  /\ file_pc = "returned"
            /\ missing = namesA \ namesB
            /\ extra = namesB \ namesA
            /\ compared = namesA \cap namesB
            /\ \A s \in compared : futures[s].state \in {"done", "failed"}
            /\ Len(error_details.missing_sheets) = Cardinality(missing)
            /\ Len(error_details.extra_sheets) = Cardinality(extra)
            /\ missing \cap extra = {}
            /\ missing \cap compared = {}
            /\ extra \cap compared = {}
            /\ missing \cup extra \cup compared = namesA \cup namesB


\* C16 (Row-count difference independent of row matching): for two tables
\* that are not identical, in keyed, positional and key-columns-not-found
\* mode, count_diff is len(A) - len(B) with its sign, and a non-zero
\* difference has its line in the detailed report, whatever the missing
\* and extra rows are.  A with 3 rows against B with the same 3 keys and 2
\* further keys gives count_diff -2 and 2 extra rows.
C16_RowCountDifference ==
    /\ (sheet_pc = "returned" /\ df1 # df2) =>
          /\ sheet_result.errors.row_differences.count_diff = Len(df1.rows) - Len(df2.rows)
          /\ Len(df1.rows) # Len(df2.rows) =>
                \E i \in DOMAIN sheet_result.detailed :
                   sheet_result.detailed[i]
                      = [tag |-> "Row count difference", names |-> <<>>,
                         nums |-> <<Len(df1.rows) - Len(df2.rows),
                                    Len(df1.rows), Len(df2.rows)>>]
    /\ (sheet_pc = "returned" /\ df1 = ScenarioThree /\ df2 = ScenarioFive
          /\ key_columns = <<"ID">>) =>
          /\ sheet_result.errors.row_differences.count_diff = -2
          /\ Len(sheet_result.errors.row_differences.extra_rows) = 2
          /\ sheet_result.errors.row_differences.missing_rows = <<>>

\* C16 witness: B has the key 1 twice; matched on ID the two tables have
\* the same keys, count_diff is -1 and no row is missing or extra.
C16_Witness ==
    /\ sheet_pc = "returned"
    /\ key_columns = <<"ID">>
    /\ df1 = ScenarioA /\ df2 = ScenarioDup
    /\ sheet_result.errors.row_differences.count_diff = -1
    /\ sheet_result.errors.row_differences.missing_rows = <<>>
    /\ sheet_result.errors.row_differences.extra_rows = <<>>

\* C17 (Positional value comparison), as claimed: without a key,
\* value_differences has exactly one record {row, column, value1, value2}
\* for every row index below min(len(A), len(B)) and every common column
\* whose normalized cells (a missing cell is "NaN", any other its string
\* form) differ at that index, and no other record.
C17_PositionalValueDifferences ==
    (sheet_pc = "returned" /\ key_columns = <<>>) =>
        LET common == Range(df1.columns) \cap Range(df2.columns)
            norm(cell) == IF cell.kind \in {"nan", "NA"} THEN "NaN" ELSE cell.text
            min_rows == Min(Len(df1.rows), Len(df2.rows))
            differing == {p \in (1..min_rows) \X common :
                            norm(df1.rows[p[1]][p[2]]) # norm(df2.rows[p[1]][p[2]])}
            vd == sheet_result.errors.value_differences
        IN  /\ {<<vd[x].row + 1, vd[x].column>> : x \in DOMAIN vd} = differing
            /\ Len(vd) = Cardinality(differing)
            /\ \A x \in DOMAIN vd : DOMAIN vd[x] = {"row", "column", "value1", "value2"}

\* C18 (Reorder isolation): for two tables with the same column set, the
\* same rows and another column order, compare_sheets lists as reordered
\* every column whose position differs, and reports no missing column, no
\* extra column, count_diff 0 and no value difference, with and without a
\* key.
C18_ReorderIsolation ==
    (/\ sheet_pc = "returned"
     /\ Range(df1.columns) = Range(df2.columns)
     /\ df1.columns # df2.columns
     /\ df1.rows = df2.rows) =>
        LET pos(cols, c) == CHOOSE i \in DOMAIN cols : cols[i] = c
            moved == {c \in Range(df1.columns) : pos(df1.columns, c) # pos(df2.columns, c)}
            cd == sheet_result.errors.column_differences
        IN  /\ cd.reordered_columns = SelectSeq(df1.columns, LAMBDA c : c \in moved)
            /\ cd.missing_columns = <<>>
            /\ cd.extra_columns = <<>>
            /\ sheet_result.errors.row_differences.count_diff = 0
            /\ sheet_result.errors.value_differences = <<>>

\* C18 witness: columns [ID, Value, Extra] against [Extra, ID, Value] with
\* the same two rows, matched on ID: all three columns are reordered.
C18_Witness ==
    /\ sheet_pc = "returned"
    /\ key_columns = <<"ID">>
    /\ df1.columns = <<"ID", "Value", "Extra">>
    /\ df2.columns = <<"Extra", "ID", "Value">>
    /\ df1.rows = df2.rows /\ Len(df1.rows) = 2
    /\ sheet_result.errors.column_differences.reordered_columns = <<"ID", "Value", "Extra">>

\* C19 (Duplicate keys are last-write-wins): in keyed mode the comparison
\* returns also when rows of a table share their key; for each key of both
\* tables the last row of A with that key is compared with the last row of
\* B with that key and the value differences are exactly those of these
\* rows; no key that occurs in both tables is listed as missing or extra.
C19_DuplicateKeysLastWins ==
    LET common == Range(df1.columns) \cap Range(df2.columns)
        kv(row) == [i \in DOMAIN key_columns |-> row[key_columns[i]].text]
        keys(df) == {kv(df.rows[i]) : i \in DOMAIN df.rows}
        last(df, k) == CHOOSE i \in DOMAIN df.rows :
                          /\ kv(df.rows[i]) = k
                          /\ \A j \in DOMAIN df.rows : kv(df.rows[j]) = k => j <= i
        asdict(k) == [c \in Range(key_columns) |->
                         k[CHOOSE i \in DOMAIN key_columns : key_columns[i] = c]]
        norm(cell) == IF cell.kind \in {"nan", "NA"} THEN "NaN" ELSE cell.text
        expected ==
            {[key    |-> asdict(p[1]),
              column |-> p[2],
              value1 |-> norm(df1.rows[last(df1, p[1])][p[2]]),
              value2 |-> norm(df2.rows[last(df2, p[1])][p[2]])] :
                p \in {q \in (keys(df1) \cap keys(df2)) \X common :
                          norm(df1.rows[last(df1, q[1])][q[2]])
                             # norm(df2.rows[last(df2, q[1])][q[2]])}}
        vd == sheet_result.errors.value_differences
        rd == sheet_result.errors.row_differences
    IN  (/\ sheet_pc \in {"returned", "raised"}
         /\ df1 # df2
         /\ key_columns # <<>>
         /\ Range(key_columns) \subseteq common) =>
            /\ sheet_pc = "returned"
            /\ Range(vd) = expected
            /\ Len(vd) = Cardinality(expected)
            /\ Range(rd.missing_rows) \subseteq {asdict(k) : k \in keys(df1) \ keys(df2)}
            /\ Range(rd.extra_rows) \subseteq {asdict(k) : k \in keys(df2) \ keys(df1)}

\* C19 witness: A has the rows (1, 10), ("1", 30), (2, NA), whose first two
\* share the key "1", B the rows (1, 10), (2, 20); matched on ID, key 1 is
\* reported with "30" against "10", the value of A's later row.
C19_Witness ==
    /\ sheet_pc = "returned"
    /\ key_columns = <<"ID">>
    /\ df1 = ScenarioDup /\ df2 = ScenarioA
    /\ \E x \in DOMAIN sheet_result.errors.value_differences :
          sheet_result.errors.value_differences[x]
             = [key |-> [c \in {"ID"} |-> "1"], column |-> "Value",
                value1 |-> "30", value2 |-> "10"]
    /\ Len(sheet_result.errors.value_differences) = 2
    /\ sheet_result.errors.row_differences.missing_rows = <<>>


\* C20 (The value-difference cap is applied at presentation only): the
\* value_differences returned by compare_sheets holds every difference
\* found, also beyond 1,000, and the "Value differences" line of both
\* reports states their full number; compare_files stores a sheet's list
\* whole; the renderer and the display go through the first 1,000 records
\* of the list.
C20_CapAtPresentationOnly ==
    /\ sheet_pc = "returned" =>
          LET common == Range(df1.columns) \cap Range(df2.columns)
              kv(row) == [i \in DOMAIN key_columns |-> row[key_columns[i]].text]
              keys(df) == {kv(df.rows[i]) : i \in DOMAIN df.rows}
              last(df, k) == CHOOSE i \in DOMAIN df.rows :
                                /\ kv(df.rows[i]) = k
                                /\ \A j \in DOMAIN df.rows : kv(df.rows[j]) = k => j <= i
              norm(cell) == IF cell.kind \in {"nan", "NA"} THEN "NaN" ELSE cell.text
              min_rows == Min(Len(df1.rows), Len(df2.rows))
              found ==
                  IF df1 = df2 THEN 0
                  ELSE IF key_columns = <<>>
                  THEN Cardinality({p \in (1..min_rows) \X common :
                                      df1.rows[p[1]][p[2]].text # df2.rows[p[1]][p[2]].text})
                  ELSE IF Range(key_columns) \subseteq common
                  THEN Cardinality({q \in (keys(df1) \cap keys(df2)) \X common :
                                      norm(df1.rows[last(df1, q[1])][q[2]])
                                         # norm(df2.rows[last(df2, q[1])][q[2]])})
                  ELSE 0
              vd == sheet_result.errors.value_differences
              stated(report) ==
                  /\ \A i \in DOMAIN report :
                        report[i].tag = "Value differences" => report[i].nums = <<found>>
                  /\ found > 0 => \E i \in DOMAIN report : report[i].tag = "Value differences"
              firsts(shown) ==
                  /\ Len(shown) = Min(found, 1000)
                  /\ \A i \in DOMAIN shown : shown[i] = vd[i]
          IN  /\ Len(vd) = found
              /\ stated(sheet_result.detailed)
              /\ stated(sheet_result.summary)
              /\ firsts(HighlightedDiffs(vd))
              /\ firsts(DisplayedDiffs(vd))
    /\ (file_pc = "returned" /\ data1.type = "excel" /\ data2.type = "excel") =>
          \A s \in DOMAIN futures :
              (futures[s].state = "done" /\ futures[s].result.errors.value_differences # <<>>) =>
                  /\ s \in DOMAIN error_details.value_differences
                  /\ error_details.value_differences[s]
                        = futures[s].result.errors.value_differences
    /\ (file_pc = "returned" /\ data1.type = "csv" /\ data2.type = "csv") =>
          LET whole == CompareSheets(data1.data, data2.data, NoKey, 10000, hash_seed)
          IN  /\ whole.errors.value_differences # <<>> =>
                    /\ DOMAIN error_details.value_differences = {"data"}
                    /\ error_details.value_differences["data"]
                          = whole.errors.value_differences
              /\ \A i \in DOMAIN summary_report :
                    summary_report[i].tag = "Value differences" =>
                       summary_report[i].nums = <<Len(whole.errors.value_differences)>>

\* C20 witness: a positional comparison found more than 1,000 value
\* differences, returned all of them and stated their number, and the
\* renderer goes through 1,000 of them.
C20_Witness ==
    /\ sheet_pc = "returned"
    /\ key_columns = <<>>
    /\ Len(sheet_result.errors.value_differences) > 1000
    /\ \E i \in DOMAIN sheet_result.summary :
          sheet_result.summary[i]
             = [tag |-> "Value differences", names |-> <<>>,
                nums |-> <<Len(sheet_result.errors.value_differences)>>]
    /\ Len(HighlightedDiffs(sheet_result.errors.value_differences)) = 1000


\* C21 (Logs lose no category and invent none): in every result of
\* compare_sheets each of the seven categories (missing, extra and
\* reordered columns, count_diff, missing and extra rows, value
\* differences) has exactly one line in the summary and one in the detailed
\* report when it is non-empty in error_details, and none when it is empty;
\* in every result of compare_files on two workbooks each missing and each
\* extra sheet has exactly one line in each report.
C21_LogsMatchCategories ==
    /\ sheet_pc = "returned" =>
          LET e == sheet_result.errors
              lines(report, tag) == Cardinality({i \in DOMAIN report : report[i].tag = tag})
              once(nonempty, dtag, stag) ==
                  /\ lines(sheet_result.detailed, dtag) = IF nonempty THEN 1 ELSE 0
                  /\ lines(sheet_result.summary, stag) = IF nonempty THEN 1 ELSE 0
          IN  /\ once(e.column_differences.missing_columns # <<>>,
                      "Missing columns in second file", "Missing columns")
              /\ once(e.column_differences.extra_columns # <<>>,
                      "Extra columns in second file", "Extra columns")
              /\ once(e.column_differences.reordered_columns # <<>>,
                      "Reordered columns", "Reordered columns")
              /\ once(e.row_differences.count_diff # 0,
                      "Row count difference", "Row count difference")
              /\ once(e.row_differences.missing_rows # <<>>,
                      "Missing rows in second file", "Missing rows")
              /\ once(e.row_differences.extra_rows # <<>>,
                      "Extra rows in second file", "Extra rows")
              /\ once(e.value_differences # <<>>, "Value differences", "Value differences")
    /\ (file_pc = "returned" /\ data1.type = "excel" /\ data2.type = "excel") =>
          LET named(report, tag, sheet) ==
                  Cardinality({i \in DOMAIN report :
                                  report[i].tag = tag /\ report[i].names = <<sheet>>})
              sheetTags == {"Sheet is in file 1 but missing in file 2",
                            "Sheet is in file 2 but missing in file 1",
                            "Sheet is missing in file 2", "Extra sheet in file 2"}
              count(report) == Cardinality({i \in DOMAIN report : report[i].tag \in sheetTags})
          IN  /\ \A sheet \in Range(error_details.missing_sheets) :
                    /\ named(detailed_report, "Sheet is in file 1 but missing in file 2", sheet) = 1
                    /\ named(summary_report, "Sheet is missing in file 2", sheet) = 1
              /\ \A sheet \in Range(error_details.extra_sheets) :
                    /\ named(detailed_report, "Sheet is in file 2 but missing in file 1", sheet) = 1
                    /\ named(summary_report, "Extra sheet in file 2", sheet) = 1
              /\ count(detailed_report)
                    = Len(error_details.missing_sheets) + Len(error_details.extra_sheets)
              /\ count(summary_report)
                    = Len(error_details.missing_sheets) + Len(error_details.extra_sheets)

\* C21 witness: a keyed comparison returned with four categories non-empty
\* (a missing and an extra column, a missing and an extra row) and three
\* empty, and each report has four lines.
C21_Witness ==
    /\ sheet_pc = "returned"
    /\ key_columns = <<"ID">>
    /\ sheet_result.errors.column_differences.missing_columns # <<>>
    /\ sheet_result.errors.column_differences.extra_columns # <<>>
    /\ sheet_result.errors.column_differences.reordered_columns = <<>>
    /\ sheet_result.errors.row_differences.count_diff = 0
    /\ sheet_result.errors.row_differences.missing_rows # <<>>
    /\ sheet_result.errors.row_differences.extra_rows # <<>>
    /\ sheet_result.errors.value_differences = <<>>
    /\ Len(sheet_result.summary) = 4
    /\ Len(sheet_result.detailed) = 4


\* C22 (A degraded comparison is distinguishable), as claimed: when
\* requested key columns were not found in two tables that are not
\* identical, the error_details returned by compare_sheets is not the empty
\* one of a comparison without differences; when the comparison of a sheet
\* raised, the error_details returned by compare_files has an entry under
\* that sheet's name.
C22_DegradedDistinguishable ==
    /\ (/\ sheet_pc = "returned"
        /\ df1 # df2
        /\ \E i \in DOMAIN key_columns :
              key_columns[i] \notin Range(df1.columns) \cap Range(df2.columns)) =>
          sheet_result.errors
             # [column_differences |->
                   [missing_columns |-> <<>>, extra_columns |-> <<>>,
                    reordered_columns |-> <<>>],
                row_differences |->
                   [count_diff |-> 0, missing_rows |-> <<>>, extra_rows |-> <<>>],
                value_differences |-> <<>>]
    /\ (file_pc = "returned" /\ data1.type = "excel" /\ data2.type = "excel") =>
          \A s \in DOMAIN futures :
              futures[s].state = "failed" =>
                  s \in DOMAIN error_details.column_differences
                          \cup DOMAIN error_details.row_differences
                          \cup DOMAIN error_details.value_differences

\* C23 (Truncation is flagged), as claimed: when more than 100 keys are
\* only in A or more than 100 only in B, the error_details returned by
\* compare_sheets has, besides the fields it always has, a field that
\* flags the truncated list.
C23_TruncationFlagged ==
    LET common == Range(df1.columns) \cap Range(df2.columns)
        kv(row) == [i \in DOMAIN key_columns |-> row[key_columns[i]].text]
        keys(df) == {kv(df.rows[i]) : i \in DOMAIN df.rows}
    IN  (/\ sheet_pc = "returned"
         /\ key_columns # <<>>
         /\ Range(key_columns) \subseteq common
         /\ \/ Cardinality(keys(df1) \ keys(df2)) > 100
            \/ Cardinality(keys(df2) \ keys(df1)) > 100) =>
            \/ DOMAIN sheet_result.errors
                  # {"column_differences", "row_differences", "value_differences"}
            \/ DOMAIN sheet_result.errors.row_differences
                  # {"count_diff", "missing_rows", "extra_rows"}


\* C24 (Inputs are read-only): no step of compare_sheets or of
\* compare_files changes an input: the two tables and the two workbooks
\* (sheet names, column order, rows and cells) are after every step what
\* they were before it, on every path.
C24_InputsReadOnly ==
    [][df1' = df1 /\ df2' = df2 /\ data1' = data1 /\ data2' = data2]_vars

\* C24 witness: a keyed comparison of a table that has a missing cell
\* returned with value differences.
C24_Witness ==
    /\ sheet_pc = "returned"
    /\ key_columns = <<"ID">>
    /\ \E i \in DOMAIN df1.rows : \E c \in DOMAIN df1.rows[i] : ~NotNa(df1.rows[i][c])
    /\ sheet_result.errors.value_differences # <<>>


\* C26 (Bounded worker pool), as claimed: for two workbooks with any
\* number of common sheets the pool is created with min(8, number of
\* common sheets) workers, and at no time are more sheet comparisons
\* running than that.
C26_BoundedWorkerPool ==
    (data1.type = "excel" /\ data2.type = "excel" /\ file_pc \notin {"idle", "call"}) =>
        LET common == Range(data1.sheet_names) \cap Range(data2.sheet_names)
            size == IF Cardinality(common) < 8 THEN Cardinality(common) ELSE 8
            running == {s \in DOMAIN futures : futures[s].state = "running"}
        IN  /\ file_pc # "raised"
            /\ Cardinality(running) <= size

\* C27 (Determinism of the findings), as claimed: the findings returned by
\* compare_sheets are those of any other execution on the same inputs,
\* whatever order that execution's sets are iterated in: the same missing,
\* extra and reordered columns, the same count_diff, the same keys listed
\* in missing_rows and in extra_rows, the same value-difference records.
C27_DeterministicFindings ==
    sheet_pc = "returned" =>
        \A seed \in 0..(NumSeeds - 1) :
            LET other == CompareSheets(df1, df2, key_columns, chunk_size, seed).errors
                this == sheet_result.errors
            IN  /\ Range(other.column_differences.missing_columns)
                      = Range(this.column_differences.missing_columns)
                /\ Range(other.column_differences.extra_columns)
                      = Range(this.column_differences.extra_columns)
                /\ other.column_differences.reordered_columns
                      = this.column_differences.reordered_columns
                /\ other.row_differences.count_diff = this.row_differences.count_diff
                /\ Range(other.row_differences.missing_rows)
                      = Range(this.row_differences.missing_rows)
                /\ Range(other.row_differences.extra_rows)
                      = Range(this.row_differences.extra_rows)
                /\ Range(other.value_differences) = Range(this.value_differences)

\* C28 (Merge discipline and completion): compare_files on two workbooks
\* returns only when every submitted task has finished and has been merged
\* or found failed, the submitted tasks being those of the common sheets;
\* the reports and error_details change only in the caller's merge of a
\* finished task that was not merged before, and a merged task stays
\* merged; the steps of the worker tasks leave them unchanged.
C28_MergeDiscipline ==
    [][(data1.type = "excel" /\ data2.type = "excel") =>
          /\ file_pc' = "returned" =>
                /\ DOMAIN futures' = Range(data1.sheet_names) \cap Range(data2.sheet_names)
                /\ merged' = DOMAIN futures'
                /\ \A s \in DOMAIN futures' : futures'[s].state \in {"done", "failed"}
          /\ merged \subseteq merged'
          /\ (file_pc \in {"submit", "collect"}
                /\ <<detailed_report, summary_report, error_details>>'
                      # <<detailed_report, summary_report, error_details>>) =>
                \E s \in DOMAIN futures :
                    /\ s \notin merged
                    /\ futures[s].state = "done"
                    /\ merged' = merged \cup {s}
                    /\ futures' = futures
          /\ futures' # futures =>
                <<detailed_report, summary_report, error_details, merged>>'
                   = <<detailed_report, summary_report, error_details, merged>>]_vars

\* C28 witness: compare_files returned with three tasks submitted, one
\* failed and two done, all three merged.
C28_Witness ==
    /\ file_pc = "returned"
    /\ Cardinality(DOMAIN futures) = 3
    /\ merged = DOMAIN futures
    /\ \E s \in DOMAIN futures : futures[s].state = "failed"
    /\ \E s \in DOMAIN futures :
          futures[s].state = "done" /\ s \in DOMAIN error_details.value_differences

\* C29 (File-level comparison is always positional): every table
\* comparison run by compare_files is the positional one with chunk size
\* 10,000: in the returned error_details every sheet's missing_rows and
\* extra_rows are empty, count_diff is the difference of the row counts,
\* and every value-difference record has a row index below the smaller row
\* count and no key.
C29_FilesPositional ==
    (file_pc = "returned" /\ data1.type = data2.type) =>
        LET table(d, s) == IF d.type = "csv" THEN d.data ELSE d.data[s]
            positional(s) == CompareSheets(table(data1, s), table(data2, s), <<>>, 10000,
                                           hash_seed).errors
        IN  /\ \A s \in DOMAIN error_details.row_differences :
                  /\ error_details.row_differences[s].missing_rows = <<>>
                  /\ error_details.row_differences[s].extra_rows = <<>>
                  /\ error_details.row_differences[s].count_diff
                        = IF table(data1, s) = table(data2, s) THEN 0
                          ELSE Len(table(data1, s).rows) - Len(table(data2, s).rows)
                  /\ error_details.row_differences[s] = positional(s).row_differences
            /\ \A s \in DOMAIN error_details.value_differences :
                  /\ error_details.value_differences[s] = positional(s).value_differences
                  /\ \A x \in DOMAIN error_details.value_differences[s] :
                        LET rec == error_details.value_differences[s][x]
                        IN  /\ DOMAIN rec = {"row", "column", "value1", "value2"}
                            /\ rec.row >= 0
                            /\ rec.row < Len(table(data1, s).rows)
                            /\ rec.row < Len(table(data2, s).rows)

\* C29 witness: two flat tables of 2 and 5 rows were compared: count_diff
\* is -3, one value difference is reported at row 1, and no row is listed
\* as missing or extra.
C29_Witness ==
    /\ file_pc = "returned"
    /\ data1.type = "csv" /\ data2.type = "csv"
    /\ "data" \in DOMAIN error_details.row_differences
    /\ error_details.row_differences["data"].count_diff = -3
    /\ error_details.row_differences["data"].extra_rows = <<>>
    /\ "data" \in DOMAIN error_details.value_differences
    /\ error_details.value_differences["data"]
          = <<[row |-> 1, column |-> "Value", value1 |-> "25", value2 |-> "20"]>>

\* C30 (Session result consistency in the app): in every session state,
\* comparison_complete is True only if the script run of the latest Compare
\* click read both files, compare_files returned, and the stored
\* detailed_report, summary_report and error_details are what it returned
\* (the value-difference records apart from the sheet key the display adds);
\* between the click and the return of compare_files the flag is False and
\* nothing is stored; the three results are stored while the flag is still
\* False; and the page shows results only when the flag is True, and then
\* the stored results, for the pair of files the uploaders hold.
C30_SessionResultConsistency ==
    /\ session_state.comparison_complete =>
        /\ run_files[1].readable /\ run_files[2].readable
        /\ file_pc = "returned"
        /\ data1 = run_files[1].data /\ data2 = run_files[2].data
        /\ session_state.detailed_report = Some(detailed_report)
        /\ session_state.summary_report = Some(summary_report)
        /\ session_state.error_details # None
        /\ WithoutSheet(session_state.error_details[1]) = error_details
    /\ app_pc \in {"read", "compare"} => session_state = InitSessionState
    /\ app_pc = "stored" =>
        /\ ~session_state.comparison_complete
        /\ session_state.detailed_report = Some(detailed_report)
        /\ session_state.summary_report = Some(summary_report)
        /\ session_state.error_details = Some(error_details)
    /\ displayed # None =>
        /\ session_state.comparison_complete
        /\ displayed = Page(session_state)
        /\ run_files = <<file1, file2>>

\* C25 (Four-colour classification): in every worksheet the renderer
\* builds, a cell has one of the four fills or none, and which one is
\* decided by the finding that covers it: red for the cells holding the
\* rows of a sheet only the first workbook has, the cells of a column
\* listed as missing and the cells of a row of the first table whose key
\* values a missing_rows record names; green for the same with the second
\* workbook, the extra columns and the extra_rows records; blue for the
\* header cell of a reordered column; yellow for the cell a value-difference
\* record among the first DisplayCap of the sheet names; no fill for a cell
\* that none of these covers.
C25_FourColours ==
    hl_pc = "returned" =>
        \A sheet \in DOMAIN wb : \A x \in DOMAIN wb[sheet] :
            LET r == x[1]
                c == x[2]
                ed == hl_error_details
                in1 == sheet \in DOMAIN file1_path.data
                in2 == sheet \in DOMAIN file2_path.data
                t1 == file1_path.data[sheet]
                t2 == file2_path.data[sheet]
                n1 == Len(t1.rows)
                cols == in1 /\ in2 /\ sheet \in DOMAIN ed.column_differences
                rows == in1 /\ in2 /\ sheet \in DOMAIN ed.row_differences
                vals == in1 /\ in2 /\ sheet \in DOMAIN ed.value_differences
                named(t, j, rec) == \A k \in DOMAIN rec : PyStr(t.rows[j][k]) = rec[k]
                last(j, key) ==
                    /\ named(t1, j, key)
                    /\ \A i \in DOMAIN t1.rows : named(t1, i, key) => i <= j
                onlyA ==
                    \/ in1 /\ ~in2 /\ r >= 2
                    \/ cols /\ r <= n1 + 1
                            /\ c \in Range(ed.column_differences[sheet].missing_columns)
                    \/ rows /\ r >= 2 /\ r <= n1 + 1 /\ c \in ColSet(t1)
                            /\ \E i \in DOMAIN ed.row_differences[sheet].missing_rows :
                                 named(t1, r - 1, ed.row_differences[sheet].missing_rows[i])
                onlyB ==
                    \/ in2 /\ ~in1 /\ r >= 2
                    \/ cols /\ r <= n1 + 1
                            /\ c \in Range(ed.column_differences[sheet].extra_columns)
                    \/ rows /\ r > n1 + 1 /\ c \in ColSet(t2)
                            /\ \E i \in DOMAIN ed.row_differences[sheet].extra_rows :
                                 named(t2, r - n1 - 1, ed.row_differences[sheet].extra_rows[i])
                reordered ==
                    cols /\ r = 1
                         /\ c \in Range(ed.column_differences[sheet].reordered_columns)
                differs ==
                    vals /\ \E i \in 1..Min(Len(ed.value_differences[sheet]), DisplayCap) :
                              LET diff == ed.value_differences[sheet][i]
                              IN  /\ diff.column = c
                                  /\ IF IsKeyed(diff)
                                     THEN r >= 2 /\ r <= n1 + 1 /\ last(r - 1, diff.key)
                                     ELSE r = diff.row + 2
            IN  /\ wb[sheet][x] \in {RED_FILL, GREEN_FILL, BLUE_FILL, YELLOW_FILL, NoFill}
                /\ wb[sheet][x] = RED_FILL <=> onlyA
                /\ wb[sheet][x] = GREEN_FILL <=> onlyB
                /\ wb[sheet][x] = BLUE_FILL <=> reordered
                /\ wb[sheet][x] = YELLOW_FILL <=> differs


============================================================================
